---- MODULE Spec2Model ----
(***************************************************************************)
(* The Duktape debug adapter session (src/src/DukDebugger.ts): the client  *)
(* side breakpoint map, the setBreakpoints request, the status             *)
(* notification handler and the per-pause handle tables, together with the *)
(* debug target they talk to.                                              *)
(***************************************************************************)
EXTENDS Integers, Sequences, FiniteSets, TLC

\* ------------------------------------------------------------------ bounds

\* Source lines the front end places breakpoints on: 1..MaxLine.
MaxLine == 2

\* Capacity of the target's breakpoint table (add-breakpoint answers ERR
\* "too many" when the table is full).
MaxTarget == 3

\* Breakpoints left on the target by an earlier, broken connection.
MaxStale == 1

\* Entries of the BreakPointMap in the stand-alone exercise of the class.
MaxMapLen == 3

\* ------------------------------------------------------------- file system

\* The generated files of the output directory, in readdirSync order.
OutDirFiles == <<"a.js", "b.js">>

\* Paths the front end names in a setBreakpoints request.
FEPaths == {"/src/a.ts", "a.ts", "/src/zz.ts"}

\* Names the target reports in status notifications and call stacks.
TargetNames == {"a.js", "b.js"}

Lines == 1..MaxLine

\* Lines of a generated file (one header line more than its source).
GenLines == 1..(MaxLine + 1)

SourceRoot == "/src"
OutDir == "/out"

existsSync(fpath) ==
    fpath \in {"/src/a.ts", "/src/b.ts", "/out/a.js", "/out/b.js"}

basename(path) ==
    CASE path = "/src/a.ts" -> "a.ts"
      [] path = "/src/b.ts" -> "b.ts"
      [] path = "/src/zz.ts" -> "zz.ts"
      [] path = "/out/a.js" -> "a.js"
      [] path = "/out/b.js" -> "b.js"
      [] OTHER -> path

join(dir, name) ==
    CASE dir = "/src" /\ name = "a.ts" -> "/src/a.ts"
      [] dir = "/src" /\ name = "b.ts" -> "/src/b.ts"
      [] dir = "/src" /\ name = "zz.ts" -> "/src/zz.ts"
      [] dir = "/src" /\ name = "a.js" -> "/src/a.js"
      [] dir = "/src" /\ name = "b.js" -> "/src/b.js"
      [] dir = "/out" /\ name = "a.js" -> "/out/a.js"
      [] dir = "/out" /\ name = "b.js" -> "/out/b.js"
      [] OTHER -> "/nowhere"

\* The original source a generated file's source map lists (_sources[0],
\* joined to the source root).
MapSourceOf(name) ==
    CASE name = "a.js" -> "/src/a.ts"
      [] name = "b.js" -> "/src/b.ts"
      [] OTHER -> "/nowhere"

NoLine == 0

\* SourceMap.generatedPositionFor: the generated line of an original line of
\* the map's own source, no line for a foreign source.
generatedPositionFor(name, absSourcePath, line) ==
    IF absSourcePath = MapSourceOf(name) THEN line + 1 ELSE NoLine

\* SourceMap.originalPositionFor: the header line of a generated file maps to
\* nothing.
originalPositionFor(name, line) ==
    IF line >= 2 THEN [source |-> MapSourceOf(name), line |-> line - 1]
    ELSE [source |-> "", line |-> NoLine]

\* ------------------------------------------------------------- SourceFile

NoSrc == [name |-> "", path |-> "", srcMap |-> FALSE]

\* SourceFile.source2Generated
source2Generated(src, absSourcePath, line) ==
    IF src.srcMap /\ generatedPositionFor(src.name, absSourcePath, line) # NoLine
    THEN [path |-> src.path, fileName |-> src.name,
          line |-> generatedPositionFor(src.name, absSourcePath, line)]
    ELSE [path |-> src.path, fileName |-> src.name, line |-> line]

\* SourceFile.generated2Source
generated2Source(src, line) ==
    IF src.srcMap /\ originalPositionFor(src.name, line).line # NoLine
    THEN [path |-> originalPositionFor(src.name, line).source,
          fileName |-> basename(originalPositionFor(src.name, line).source),
          line |-> originalPositionFor(src.name, line).line]
    ELSE [path |-> src.path, fileName |-> src.name, line |-> line]

\* ---------------------------------------------------------- BreakPointMap

Undefined == -1

\* A DukBreakPoint as its constructor leaves it: dukIdx not yet assigned.
DukBreakPoint(filePath, line) ==
    [filePath |-> filePath, line |-> line, dukIdx |-> Undefined]

\* A slot of _breakpoints that removeBreakpoints has set to null.
Null == [filePath |-> "null", line |-> 0, dukIdx |-> Undefined]

HasNull(bs) == \E i \in 1..Len(bs) : bs[i] = Null

\* "Reset IDs": bps[i].dukIdx = i for every slot (0-based).
ResetIDs(bs) == [i \in 1..Len(bs) |-> [bs[i] EXCEPT !.dukIdx = i - 1]]

\* The inner loop of removeBreakpoints for one entry of remList: null the
\* first slot whose dukIdx matches; reading .dukIdx of a null slot throws.
RECURSIVE NullFirstMatch(_, _, _)
NullFirstMatch(bs, dukIdx, i) ==
    IF i > Len(bs) THEN [bps |-> bs, threw |-> FALSE]
    ELSE IF bs[i] = Null THEN [bps |-> bs, threw |-> TRUE]
    ELSE IF bs[i].dukIdx = dukIdx
         THEN [bps |-> [bs EXCEPT ![i] = Null], threw |-> FALSE]
    ELSE NullFirstMatch(bs, dukIdx, i + 1)

\* remList.forEach of removeBreakpoints.
RECURSIVE NullAll(_, _, _)
NullAll(bs, remList, k) ==
    IF k > Len(remList) THEN [bps |-> bs, threw |-> FALSE]
    ELSE IF NullFirstMatch(bs, remList[k].dukIdx, 1).threw
         THEN NullFirstMatch(bs, remList[k].dukIdx, 1)
    ELSE NullAll(NullFirstMatch(bs, remList[k].dukIdx, 1).bps, remList, k + 1)

\* The splice loop of removeBreakpoints: drop the null slots.
RECURSIVE SpliceNulls(_)
SpliceNulls(bs) ==
    IF bs = <<>> THEN <<>>
    ELSE IF Head(bs) = Null THEN SpliceNulls(Tail(bs))
    ELSE <<Head(bs)>> \o SpliceNulls(Tail(bs))

\* BreakPointMap.removeBreakpoints: the map afterwards, and whether the call
\* threw (a TypeError leaves the slots nulled so far in place).
removeBreakpoints(bs, remList) ==
    IF NullAll(bs, remList, 1).threw THEN NullAll(bs, remList, 1)
    ELSE [bps |-> ResetIDs(SpliceNulls(NullAll(bs, remList, 1).bps)),
          threw |-> FALSE]

\* BreakPointMap.addBreakpoints: push, then renumber; the renumbering throws
\* on a null slot (the pushes have happened by then).
addBreakpoints(bs, list) ==
    IF HasNull(bs \o list) THEN [bps |-> bs \o list, threw |-> TRUE]
    ELSE [bps |-> ResetIDs(bs \o list), threw |-> FALSE]

\* ArrayX.firstOrNull over the entries of a list, with the comparer of
\* BreakPointMap.find; reading a null slot throws.
RECURSIVE find(_, _, _)
find(bs, filePath, line) ==
    IF bs = <<>> THEN [bp |-> Null, threw |-> FALSE]
    ELSE IF Head(bs) = Null THEN [bp |-> Null, threw |-> TRUE]
    ELSE IF Head(bs).filePath = filePath /\ Head(bs).line = line
         THEN [bp |-> Head(bs), threw |-> FALSE]
    ELSE find(Tail(bs), filePath, line)

\* BreakPointMap.getBreakpointsForFile (callers check HasNull first: the
\* loop throws on a null slot).
RECURSIVE getBreakpointsForFile(_, _)
getBreakpointsForFile(bs, filePath) ==
    IF bs = <<>> THEN <<>>
    ELSE IF Head(bs).filePath = filePath
         THEN <<Head(bs)>> \o getBreakpointsForFile(Tail(bs), filePath)
    ELSE getBreakpointsForFile(Tail(bs), filePath)

\* ------------------------------------------------------------------ state

VARIABLES
    phase,                  \* "new", "attaching", "attached", "failed"
    args,                   \* _args: the attach arguments
    sources,                \* _sources: the SourceFile registry
    sourceToGen,            \* _sourceToGen: original path -> SourceFile
    bps,                    \* _breakpoints._breakpoints
    target,                 \* the target's breakpoint table
    queue,                  \* commands sent to the target and not yet answered
    init,                   \* removeAllTargetBreakpoints of finalizeInit
    awaitingInitialStatus,  \* _awaitingInitialStatus
    initialStatus,          \* _initialStatus
    paused,                 \* _dbgState.paused
    expectingBreak,         \* _expectingBreak
    sbp,                    \* the setBreakpoints request being served
    bpResp,                 \* the response to that request, once sent
    lastStop,               \* the latest StoppedEvent
    continued,              \* a ContinuedEvent has been sent since that event
    dropped,                \* the latest status was dropped: it came before
                            \* the initial run state was asked for
    lastAccepted,           \* latest stop reason asked for since that event
    mapOp,                  \* latest call in the stand-alone BreakPointMap exercise
    disc,                   \* the disconnect request being served
    stackFrames,            \* _dbgState.stackFrames
    scopes,                 \* _dbgState.scopes
    varHandles,             \* _dbgState.varHandles
    ptrHandles,             \* _dbgState.ptrHandles
    st,                     \* the stackTrace request being served
    sc,                     \* the scopes request being served
    issued,                 \* handles sent to the front end, and when: "paused"
                            \* or "running" at the time, "old" once a later
                            \* paused status has been acted upon
    varResp,                \* the response to the latest variables request
    vr,                     \* the variables request being served
    refused,                \* the latest run-control request that was answered
                            \* with an error response
    proto,                  \* the protocol engine on its own: commands
                            \* sent, requests pending, frames received
    parked,                 \* a second setBreakpoints request in flight, and
                            \* its response: the one whose reply is not next
    varResp2,               \* the response to a variables request made while
                            \* the one being served awaits a reply
    ev,                     \* the evaluate request being served, and the
                            \* responses sent for it
    disp,                   \* the display values of resolvePropertySetVariables
                            \* on their own
    posOp                   \* latest call in the stand-alone SourceFile exercise

bpVars == <<sources, sourceToGen, bps, target, sbp, bpResp>>
initVars == <<phase, args, init, awaitingInitialStatus, initialStatus>>
stopVars == <<paused, expectingBreak, lastStop, continued, dropped,
              lastAccepted>>
handleVars == <<stackFrames, scopes, varHandles, ptrHandles, st, sc, issued,
                varResp, vr>>
sideVars == <<varResp2, ev, disp, posOp>>

vars == <<phase, args, sources, sourceToGen, bps, target, queue, init,
          awaitingInitialStatus, initialStatus, paused, expectingBreak,
          sbp, bpResp, lastStop, continued, dropped, lastAccepted, mapOp,
          parked, proto, refused, disc, stackFrames, scopes, varHandles, ptrHandles, st, sc, issued,
          varResp, vr, varResp2, ev, disp, posOp>>

\* The breakpoint a target entry was added for: the client entry's file and
\* line, or Stale for one left by an earlier connection.
Stale == [filePath |-> "stale", line |-> 0]
OriginOf(bp) == [filePath |-> bp.filePath, line |-> bp.line]

NoArgs == [sourceMaps |-> FALSE, stopOnEntry |-> FALSE]
NoStatus == [state |-> "none", filename |-> "", linenumber |-> 0]
NoCmd == [cmd |-> "none", idx |-> 0, fileName |-> "", line |-> 0,
          origin |-> Stale, owner |-> "none", depth |-> 0]
Cmd(c, owner) == [NoCmd EXCEPT !.cmd = c, !.owner = owner]
EvalCmd(owner, depth) ==
    [NoCmd EXCEPT !.cmd = "eval", !.owner = owner, !.depth = depth]
DelCmd(idx, owner) == [NoCmd EXCEPT !.cmd = "del", !.idx = idx, !.owner = owner]
AddCmd(fileName, line, bp) ==
    [NoCmd EXCEPT !.cmd = "add", !.fileName = fileName, !.line = line,
                  !.origin = OriginOf(bp), !.owner = "sbp"]

IdleSbp == [pc |-> "idle", i |-> 0, filePath |-> "", src |-> NoSrc,
            lines |-> {}, remBPs |-> <<>>, addBPs |-> <<>>,
            persistBPs |-> <<>>, successBPs |-> <<>>, err |-> FALSE]
NoResp == [kind |-> "none", lines |-> <<>>]
NoStop == [seq |-> 0, reason |-> "", path |-> "", fileName |-> "", line |-> 0]
IdleSt == [pc |-> "idle", index |-> 0, frames |-> <<>>, stale |-> FALSE]
IdleSc == [pc |-> "idle", keys |-> <<>>, pKeys |-> <<>>, pVals |-> <<>>,
           left |-> 0, propSet |-> 0, objVars |-> <<>>, results |-> <<>>,
           stale |-> FALSE, scope |-> 0]
NoVarResp == [ref |-> 0, when |-> "", found |-> FALSE, paused |-> FALSE,
              kind |-> "none", wire |-> <<>>, variables |-> <<>>]
IdleVr == [pc |-> "idle", ref |-> 0, when |-> "", propSet |-> 0,
           kind |-> "none", names |-> <<>>, refs |-> {}, left |-> 0,
           objVars |-> <<>>, results |-> <<>>, stale |-> FALSE]
\* No request has been refused yet. A refusal names the request; 'seq'
\* alternates from one refusal to the next.
NoRefusal == [req |-> "none", seq |-> 0]

NoMapOp == [op |-> "none", before |-> <<>>, list |-> <<>>, threw |-> FALSE]

\* No variables request has overlapped another yet.
NoVarResp2 == [ref |-> 0, variables |-> <<>>]

\* No evaluate request has been made yet. A request names an expression and
\* a frame; 'reply' is what the target answered, 'responses' counts the
\* responses sent for the request, 'kind', 'result' and 'ref' are those of
\* the latest one.
IdleEv == [pc |-> "idle", expr |-> "", frameId |-> 0, reply |-> "none",
           responses |-> 0, kind |-> "none", result |-> "", ref |-> 0]

\* The heap objects of the display-value exercise, named after what they
\* answer: a built-in object (its class is not OBJECT); objects whose
\* toString() gives a string of their own, "[object Foo]", or "[object
\* Object]" with and without a constructor name; one whose toString() fails.
HeapObjects == {"builtin", "named", "tagged", "plain", "plainNoCtor",
                "unsuccessful"}

\* Nothing resolved yet: no pointer is cached, no variable exists. 'cache'
\* is ptrHandles with the displayName of each registered property set ("" for
\* undefined); 'shown' holds the variables created since the pause, with the
\* heap object each refers to.
NoDisp == [pc |-> "idle", calls |-> 0,
           cache |-> [o \in HeapObjects |-> [known |-> FALSE, displayName |-> ""]],
           shown |-> <<>>, objVars |-> <<>>, ctorVars |-> <<>>]

\* No call has been made in the SourceFile exercise. A call names the
\* function, the SourceFile, the line, and what the source-map service
\* answers; 'out' is what the function returns, or that it threw.
NoPosOp == [op |-> "none", src |-> [name |-> "", path |-> "", srcMap |-> FALSE],
            line |-> 0, pos |-> [null |-> TRUE, source |-> "", line |-> 0],
            out |-> [path |-> "", fileName |-> "", line |-> 0, threw |-> FALSE]]

\* The disconnect request: where its chain of promises stands, how many
\* delete commands are unanswered, the 'disconnected' flag of its closure,
\* the state of its timer, how often the socket has been closed and the
\* response sent for it, which path closed the socket first, and how many
\* TerminatedEvents the session has sent.
IdleDisc == [pc |-> "none", left |-> 0, disconnected |-> FALSE,
             timer |-> "off", closed |-> 0, responses |-> 0, by |-> "none",
             terminated |-> 0]

\* The protocol engine before its first command: nothing sent, nothing
\* pending, no frame received, the socket open.
IdleProto == [calls |-> 0, wire |-> <<>>, pending |-> <<>>, outcome |-> <<>>,
              replies |-> 0, fatal |-> FALSE, link |-> "up", events |-> 0,
              notices |-> 0, value |-> <<>>, bytes |-> <<>>,
              decoded |-> <<>>, written |-> <<>>, out |-> <<>>,
              fed |-> <<>>, buf |-> <<>>, cur |-> <<>>, msgs |-> <<>>]

\* Target tables holding up to n stale breakpoints.
TablesUpTo(n) ==
    {[i \in 1..k |-> [fileName |-> "a.js", line |-> 1, origin |-> Stale]] :
         k \in 0..n}

StaleTables == TablesUpTo(MaxStale)

\* The state after the constructor: nothing attached, _expectingBreak is
\* "debugger", the map is empty; the target holds one of the given tables.
InitState(tables) ==
    /\ phase = "new"
    /\ args = NoArgs
    /\ sources = {}
    /\ sourceToGen = {}
    /\ bps = <<>>
    /\ target \in tables
    /\ queue = <<>>
    /\ init = [pc |-> "none", left |-> 0]
    /\ awaitingInitialStatus = FALSE
    /\ initialStatus = NoStatus
    /\ paused = FALSE
    /\ expectingBreak = "debugger"
    /\ sbp = IdleSbp
    /\ bpResp = NoResp
    /\ lastStop = NoStop
    /\ continued = FALSE
    /\ dropped = FALSE
    /\ lastAccepted = "none"
    /\ refused = NoRefusal
    /\ mapOp = NoMapOp
    /\ parked = [r |-> IdleSbp, resp |-> NoResp]
    /\ varResp2 = NoVarResp2
    /\ ev = IdleEv
    /\ disp = NoDisp
    /\ posOp = NoPosOp
    /\ proto = IdleProto
    /\ disc = IdleDisc
    /\ stackFrames = <<>>
    /\ scopes = <<>>
    /\ varHandles = <<>>
    /\ ptrHandles = {}
    /\ st = IdleSt
    /\ sc = IdleSc
    /\ issued = {}
    /\ varResp = NoVarResp
    /\ vr = IdleVr

\* The target may hold stale breakpoints.
Init == InitState(StaleTables)

\* ------------------------------------------------------- source registry

Lookup(set, name) == CHOOSE s \in set : s.name = name

\* mapSourceFile: the SourceFile of a target file name (created on first
\* use, with its source map when source maps are on), or NoSrc.
mapSourceFile(name, srcs, s2g, a) ==
    IF \E s \in srcs : s.name = name
    THEN [src |-> Lookup(srcs, name), sources |-> srcs, sourceToGen |-> s2g]
    ELSE IF ~existsSync(join(IF a.sourceMaps THEN OutDir ELSE SourceRoot, name))
    THEN [src |-> NoSrc, sources |-> srcs, sourceToGen |-> s2g]
    ELSE LET src == [name |-> name,
                     path |-> join(IF a.sourceMaps THEN OutDir ELSE SourceRoot, name),
                     srcMap |-> a.sourceMaps]
         IN [src |-> src,
             sources |-> srcs \cup {src},
             sourceToGen |->
                 IF src.srcMap
                 THEN {e \in s2g : e.key # MapSourceOf(name)}
                          \cup {[key |-> MapSourceOf(name), src |-> src]}
                 ELSE s2g]

\* The directory scan of unmapSourceFile: the first file of the output
\* directory that mapSourceFile accepts.
RECURSIVE ScanOutDir(_, _, _, _)
ScanOutDir(files, srcs, s2g, a) ==
    IF files = <<>> THEN [src |-> NoSrc, sources |-> srcs, sourceToGen |-> s2g]
    ELSE IF mapSourceFile(Head(files), srcs, s2g, a).src # NoSrc
         THEN mapSourceFile(Head(files), srcs, s2g, a)
    ELSE ScanOutDir(Tail(files), srcs, s2g, a)

\* unmapSourceFile: the SourceFile of the generated file of an original
\* source path. The _sourceMaps utility it tests exists exactly when the
\* session was attached with sourceMaps (finalizeInit). The paths of the
\* front end are in normal form already, so Path.normalize leaves them.
unmapSourceFile(path, srcs, s2g, a) ==
    IF ~a.sourceMaps THEN mapSourceFile(basename(path), srcs, s2g, a)
    ELSE IF \E e \in s2g : e.key = path
         THEN [src |-> (CHOOSE e \in s2g : e.key = path).src,
               sources |-> srcs, sourceToGen |-> s2g]
    ELSE ScanOutDir(OutDirFiles, srcs, s2g, a)

\* DebugSession.convertClientLineToDebugger / convertDebuggerLineToClient:
\* client and debugger lines both start at 1.
debuggerLinesStartAt1 == TRUE
clientLinesStartAt1 == TRUE
convertClientLineToDebugger(line) ==
    IF debuggerLinesStartAt1
    THEN (IF clientLinesStartAt1 THEN line ELSE line + 1)
    ELSE (IF clientLinesStartAt1 THEN line - 1 ELSE line)
convertDebuggerLineToClient(line) ==
    IF debuggerLinesStartAt1
    THEN (IF clientLinesStartAt1 THEN line ELSE line - 1)
    ELSE (IF clientLinesStartAt1 THEN line + 1 ELSE line)

\* ----------------------------------------------------------------- attach

MaxFireAndForget == 1

FireAndForget(c) == c.owner = "none"
NumFireAndForget == Cardinality({i \in 1..Len(queue) : FireAndForget(queue[i])})

\* attachRequest and beginInit: remember the arguments, forget any earlier
\* initial status, start connecting.
attachRequest(Args) ==
    /\ phase = "new"
    /\ \E a \in Args : args' = a
    /\ phase' = "attaching"
    /\ initialStatus' = NoStatus
    /\ awaitingInitialStatus' = FALSE
    /\ UNCHANGED <<sources, sourceToGen, bps, target, queue, init, paused,
                   expectingBreak, sbp, bpResp, lastStop, continued, dropped,
                   lastAccepted, mapOp, parked, sideVars, proto, refused, disc,
                   handleVars>>

\* The 'attached' event with success: finalizeInit. The registries and the
\* map are emptied, the state is reset and removeAllTargetBreakpoints sends
\* its list-breakpoints command.
finalizeInit ==
    /\ phase = "attaching"
    /\ phase' = "attached"
    /\ sources' = {}
    /\ sourceToGen' = {}
    /\ bps' = <<>>
    /\ paused' = FALSE
    /\ queue' = Append(queue, Cmd("list", "init"))
    /\ init' = [pc |-> "list", left |-> 0]
    /\ stackFrames' = <<>>
    /\ scopes' = <<>>
    /\ varHandles' = <<>>
    /\ ptrHandles' = {}
    /\ UNCHANGED <<args, target, awaitingInitialStatus, initialStatus,
                   expectingBreak, sbp, bpResp, lastStop, continued, dropped,
                   lastAccepted, mapOp, parked, sideVars, proto, refused, disc,
                   st, sc, issued, varResp, vr>>

\* The 'attached' event without success: an error response, nothing else.
attachFailed ==
    /\ phase = "attaching"
    /\ phase' = "failed"
    /\ UNCHANGED <<args, sources, sourceToGen, bps, target, queue, init,
                   awaitingInitialStatus, initialStatus, paused,
                   expectingBreak, sbp, bpResp, lastStop, continued, dropped,
                   lastAccepted, mapOp, parked, sideVars, proto, refused, disc,
                   handleVars>>

\* The continuation of finalizeInit once the stale breakpoints are cleared:
\* ask for the initial run state and start waiting for its status.
InitialRunState == Cmd(IF args.stopOnEntry THEN "pause" ELSE "resume", "none")

\* ------------------------------------------------------- setBreakpoints

RECURSIVE SetToSeq(_)
SetToSeq(S) ==
    IF S = {} THEN <<>>
    ELSE LET m == CHOOSE x \in S : \A y \in S : x <= y
         IN <<m>> \o SetToSeq(S \ {m})

LinesOf(list) == {list[i].line : i \in 1..Len(list)}

RECURSIVE SelectBPs(_, _, _)
SelectBPs(list, lineSet, keep) ==
    IF list = <<>> THEN <<>>
    ELSE IF (Head(list).line \in lineSet) = keep
         THEN <<Head(list)>> \o SelectBPs(Tail(list), lineSet, keep)
    ELSE SelectBPs(Tail(list), lineSet, keep)

\* "Get breakpoints to add": a new DukBreakPoint for every requested line no
\* entry of the file has.
addBPsOf(filePath, inBreaks, fileBPs) ==
    LET news == SelectSeq(inBreaks, LAMBDA l : l \notin LinesOf(fileBPs))
    IN [i \in 1..Len(news) |-> DukBreakPoint(filePath, news[i])]

\* "Get breakpoints to remove": the entries of the file whose line is not
\* requested.
remBPsOf(inBreaks, fileBPs) ==
    SelectBPs(fileBPs, {inBreaks[i] : i \in 1..Len(inBreaks)}, FALSE)

\* "Get breakpoints that will persist": the entries of the file that are not
\* removed.
persistBPsOf(fileBPs, rem) == SelectBPs(fileBPs, LinesOf(rem), FALSE)

\* The position an add-breakpoint command names: generatedName stays null
\* unless the file has a source map.
generatedNameOf(src, filePath, line) ==
    IF src.srcMap THEN source2Generated(src, filePath, line).fileName ELSE ""

\* The last .then of setBreakPointsRequest: update the map, send the
\* response. A throw of removeBreakpoints leaves the promise rejected: the
\* map keeps its nulled slots and no response is sent.
Finalize(r, success) ==
    LET rm == removeBreakpoints(bps, r.remBPs)
        ad == addBreakpoints(rm.bps, success)
    IN IF rm.threw
       THEN /\ bps' = rm.bps
            /\ sbp' = [r EXCEPT !.pc = "dead", !.successBPs = success]
            /\ bpResp' = NoResp
       ELSE /\ bps' = ad.bps
            /\ sbp' = [r EXCEPT !.pc = "done", !.successBPs = success]
            /\ bpResp' = [kind |-> "ok",
                          lines |-> [i \in 1..Len(r.persistBPs \o success) |->
                                        (r.persistBPs \o success)[i].line]]

\* doAddBreakpoints(i): without a generated name every breakpoint is passed
\* over; otherwise the add-breakpoint command of addBPs[i] is sent.
doAddBreakpoints(r, i, success, q) ==
    IF i > Len(r.addBPs) \/ generatedNameOf(r.src, r.filePath, r.addBPs[i].line) = ""
    THEN /\ Finalize(r, success)
         /\ queue' = q
    ELSE /\ queue' = Append(q,
                AddCmd(generatedNameOf(r.src, r.filePath, r.addBPs[i].line),
                       source2Generated(r.src, r.filePath, r.addBPs[i].line).line,
                       r.addBPs[i]))
         /\ sbp' = [r EXCEPT !.pc = "add", !.i = i, !.successBPs = success]
         /\ bpResp' = NoResp
         /\ UNCHANGED bps

\* A plausible slip: the delete commands are sent together, as
\* removeAllTargetBreakpoints sends them.
doRemoveTogether(r, i, q) ==
    IF i > Len(r.remBPs)
    THEN doAddBreakpoints(r, 1, <<>>, q)
    ELSE /\ queue' = q \o [k \in i..Len(r.remBPs) |->
                               DelCmd(r.remBPs[k].dukIdx, "sbp")]
         /\ sbp' = [r EXCEPT !.pc = "rem", !.i = i]
         /\ bpResp' = NoResp
         /\ UNCHANGED bps

\* doRemoveBreakpoints(i): the delete-breakpoint command of remBPs[i], by the
\* index the entry holds in the map; after the last one, the adds.
doRemoveBreakpoints(r, i, q) ==
    IF i > Len(r.remBPs)
    THEN doAddBreakpoints(r, 1, <<>>, q)
    ELSE /\ queue' = Append(q, DelCmd(r.remBPs[i].dukIdx, "sbp"))
         /\ sbp' = [r EXCEPT !.pc = "rem", !.i = i]
         /\ bpResp' = NoResp
         /\ UNCHANGED bps

\* setBreakPointsRequest, up to its first command, for requests whose lines
\* are a list as the front end sends it. An unknown source file is
\* answered with an error; a null slot in the map makes
\* getBreakpointsForFile throw, which the session base class answers with
\* an error as well.
setBreakPointsRequestOf(Requests) ==
    /\ phase = "attached"
    /\ sbp.pc \in {"idle", "done", "dead"}
    /\ \E req \in Requests :
         LET filePath == req.path
             inBreaks == [i \in 1..Len(req.lines) |->
                             convertClientLineToDebugger(req.lines[i])]
             um == unmapSourceFile(filePath, sources, sourceToGen, args)
         IN /\ sources' = um.sources
            /\ sourceToGen' = um.sourceToGen
            /\ IF um.src = NoSrc \/ HasNull(bps)
               THEN /\ bpResp' = [kind |-> "error", lines |-> <<>>]
                    /\ sbp' = [IdleSbp EXCEPT !.filePath = filePath]
                    /\ UNCHANGED <<bps, queue>>
               ELSE LET fileBPs == getBreakpointsForFile(bps, filePath)
                        rem == remBPsOf(inBreaks, fileBPs)
                        r == [IdleSbp EXCEPT
                                 !.filePath = filePath,
                                 !.src = um.src,
                                 !.lines = {inBreaks[i] : i \in 1..Len(inBreaks)},
                                 !.remBPs = rem,
                                 !.addBPs = addBPsOf(filePath, inBreaks, fileBPs),
                                 !.persistBPs = persistBPsOf(fileBPs, rem)]
                    IN doRemoveBreakpoints(r, 1, queue)
    /\ UNCHANGED <<phase, args, target, init, awaitingInitialStatus,
                   initialStatus, paused, expectingBreak, lastStop, continued,
                   dropped, lastAccepted, mapOp, parked, sideVars, proto,
                   refused, disc, handleVars>>

\* The same, for requests that name a set of lines: each line once, in
\* ascending order.
setBreakPointsRequest(Requests) ==
    setBreakPointsRequestOf({[path |-> r.path, lines |-> SetToSeq(r.lines)] :
                                r \in Requests})

\* Two requests in flight. Each call of setBreakPointsRequest has its own
\* remBPs, addBPs, persistBPs and successBPs, and the entries of remBPs and
\* persistBPs are the DukBreakPoint objects of the map themselves: "Reset
\* IDs" of a map update by one request renumbers them for the other.

\* The entries of a list of the request as the map holds them now; an entry
\* the map has dropped keeps the dukIdx it had.
Shared(list, bs) ==
    [k \in 1..Len(list) |->
        IF \E i \in 1..Len(bs) : bs[i] # Null /\ OriginOf(bs[i]) = OriginOf(list[k])
        THEN LET i == CHOOSE i \in 1..Len(bs) :
                          /\ bs[i] # Null /\ OriginOf(bs[i]) = OriginOf(list[k])
                          /\ \A j \in 1..(i - 1) :
                                 bs[j] = Null \/ OriginOf(bs[j]) # OriginOf(list[k])
             IN bs[i]
        ELSE list[k]]

\* The command, as waiting for the other of the two requests.
OtherOwner(c) ==
    IF c.owner = "sbp" THEN [c EXCEPT !.owner = "sbp2"]
    ELSE IF c.owner = "sbp2" THEN [c EXCEPT !.owner = "sbp"]
    ELSE c

\* The session turns from one request in flight to the other: when the
\* front end sends a second request while the first awaits a reply, and when
\* the reply at the head of the queue belongs to the other request. Nothing
\* of the session changes; the request turned to reads its lists through
\* the map.
switchRequest ==
    /\ phase = "attached"
    /\ queue # <<>>
    /\ \/ sbp.pc \in {"rem", "add"} /\ parked.r = IdleSbp
          /\ Head(queue).owner = "sbp"
       \/ Head(queue).owner = "sbp2"
    /\ sbp' = [parked.r EXCEPT !.remBPs = Shared(@, bps),
                               !.persistBPs = Shared(@, bps)]
    /\ bpResp' = parked.resp
    /\ parked' = [r |-> sbp, resp |-> bpResp]
    /\ queue' = [i \in 1..Len(queue) |-> OtherOwner(queue[i])]
    /\ UNCHANGED <<phase, args, sources, sourceToGen, bps, target, init,
                   awaitingInitialStatus, initialStatus, stopVars, mapOp,
                   sideVars, proto, refused, disc, handleVars>>

\* ------------------------------------------------------------ the target

\* The target's table after delete-breakpoint idx (0-based): the entries
\* above idx move down by one.
RemoveAt(tbl, idx) ==
    [i \in 1..(Len(tbl) - 1) |-> IF i <= idx THEN tbl[i] ELSE tbl[i + 1]]

DelAccepted(tbl, idx) == idx >= 0 /\ idx < Len(tbl)
AddAccepted(tbl) == Len(tbl) < MaxTarget

\* A plausible slip: the count is not decremented before the loop, so the
\* indices run from n down to 1.
InitDeletesFromCount(n) == [i \in 1..n |-> DelCmd(n - i + 1, "init")]

\* A plausible slip: the delete commands count upwards from index 0.
InitDeletesUpwards(n) == [i \in 1..n |-> DelCmd(i - 1, "init")]

\* The delete commands removeAllTargetBreakpoints sends for n breakpoints:
\* indices n-1 down to 0.
InitDeletes(n) == [i \in 1..n |-> DelCmd(n - i, "init")]

\* The .then of finalizeInit after removeAllTargetBreakpoints resolved.
InitCleared(q) ==
    /\ awaitingInitialStatus' = TRUE
    /\ queue' = Append(q, InitialRunState)

\* The reply to list-breakpoints of removeAllTargetBreakpoints.
ReplyList ==
    /\ queue # <<>>
    /\ Head(queue).cmd = "list" /\ Head(queue).owner = "init"
    /\ IF Len(target) < 1
       THEN /\ InitCleared(Tail(queue))
            /\ init' = [pc |-> "done", left |-> 0]
       ELSE /\ queue' = Tail(queue) \o InitDeletes(Len(target))
            /\ init' = [pc |-> "dels", left |-> Len(target)]
            /\ UNCHANGED awaitingInitialStatus
    /\ UNCHANGED <<phase, args, sources, sourceToGen, bps, target,
                   initialStatus, paused, expectingBreak, sbp, bpResp,
                   lastStop, continued, dropped, lastAccepted, mapOp, parked,
                   sideVars, proto, refused, disc, handleVars>>

\* A plausible slip: the first acknowledged delete settles the clearing.
FirstAcknowledged(i) == i.pc = "dels"

\* Promise.all of removeAllTargetBreakpoints resolves with the reply to the
\* last outstanding delete command.
AllAcknowledged(i) == i.pc = "dels" /\ i.left = 1

\* The reply to one delete command of removeAllTargetBreakpoints: Promise.all
\* resolves after the last REP and rejects on the first ERR, and a rejection
\* passes the .catch() without a handler, so the .then is skipped.
ReplyInitDelete ==
    /\ queue # <<>>
    /\ Head(queue).cmd = "del" /\ Head(queue).owner = "init"
    /\ IF DelAccepted(target, Head(queue).idx)
       THEN /\ target' = RemoveAt(target, Head(queue).idx)
            /\ IF AllAcknowledged(init)
               THEN /\ InitCleared(Tail(queue))
                    /\ init' = [pc |-> "done", left |-> 0]
               ELSE /\ queue' = Tail(queue)
                    /\ init' = [init EXCEPT !.left = init.left - 1]
                    /\ UNCHANGED awaitingInitialStatus
       ELSE /\ queue' = Tail(queue)
            /\ init' = [pc |-> "rejected", left |-> init.left - 1]
            /\ UNCHANGED <<target, awaitingInitialStatus>>
    /\ UNCHANGED <<phase, args, sources, sourceToGen, bps, initialStatus,
                   paused, expectingBreak, sbp, bpResp, lastStop, continued,
                   dropped, lastAccepted, mapOp, parked, sideVars, proto,
                   refused, disc, handleVars>>

\* An ERR reply to list-breakpoints of removeAllTargetBreakpoints: its
\* promise rejects, the rejection passes the .catch() of finalizeInit, which
\* has no handler, and the .then that asks for the initial run state is
\* skipped.
RejectList ==
    /\ queue # <<>>
    /\ Head(queue).cmd = "list" /\ Head(queue).owner = "init"
    /\ queue' = Tail(queue)
    /\ init' = [pc |-> "rejected", left |-> 0]
    /\ UNCHANGED <<phase, args, sources, sourceToGen, bps, target,
                   awaitingInitialStatus, initialStatus, paused,
                   expectingBreak, sbp, bpResp, lastStop, continued, dropped,
                   lastAccepted, mapOp, parked, sideVars, proto, refused, disc,
                   handleVars>>

\* An ERR reply to a delete command of removeAllTargetBreakpoints whose
\* index is valid: Promise.all rejects, with the same outcome.
RejectInitDelete ==
    /\ queue # <<>>
    /\ Head(queue).cmd = "del" /\ Head(queue).owner = "init"
    /\ queue' = Tail(queue)
    /\ init' = [pc |-> "rejected", left |-> init.left - 1]
    /\ UNCHANGED <<phase, args, sources, sourceToGen, bps, target,
                   awaitingInitialStatus, initialStatus, paused,
                   expectingBreak, sbp, bpResp, lastStop, continued, dropped,
                   lastAccepted, mapOp, parked, sideVars, proto, refused, disc,
                   handleVars>>

\* The reply to a delete-breakpoint command of setBreakPointsRequest. REP:
\* the next delete, or the adds. ERR: the rejection passes every .catch()
\* of the chain, none of which has a handler, so the remaining commands, the
\* map update and the response are all skipped.
ReplyDelete ==
    /\ queue # <<>>
    /\ Head(queue).cmd = "del" /\ Head(queue).owner = "sbp"
    /\ IF DelAccepted(target, Head(queue).idx)
       THEN /\ target' = RemoveAt(target, Head(queue).idx)
            /\ doRemoveBreakpoints(sbp, sbp.i + 1, Tail(queue))
       ELSE /\ queue' = Tail(queue)
            /\ sbp' = [sbp EXCEPT !.pc = "dead", !.err = TRUE]
            /\ UNCHANGED <<target, bps, bpResp>>
    /\ UNCHANGED <<phase, args, sources, sourceToGen, init,
                   awaitingInitialStatus, initialStatus, paused,
                   expectingBreak, lastStop, continued, dropped, lastAccepted,
                   mapOp, parked, sideVars, proto, refused, disc, handleVars>>

\* The reply to an add-breakpoint command of setBreakPointsRequest. REP: the
\* breakpoint joins successBPs and the next add follows. ERR: as for a
\* delete, the chain ends there.
ReplyAdd ==
    /\ queue # <<>>
    /\ Head(queue).cmd = "add" /\ Head(queue).owner = "sbp"
    /\ IF AddAccepted(target)
       THEN /\ target' = Append(target, [fileName |-> Head(queue).fileName,
                                        line |-> Head(queue).line,
                                        origin |-> Head(queue).origin])
            /\ doAddBreakpoints(sbp, sbp.i + 1,
                                Append(sbp.successBPs, sbp.addBPs[sbp.i]),
                                Tail(queue))
       ELSE /\ queue' = Tail(queue)
            /\ sbp' = [sbp EXCEPT !.pc = "dead", !.err = TRUE]
            /\ UNCHANGED <<target, bps, bpResp>>
    /\ UNCHANGED <<phase, args, sources, sourceToGen, init,
                   awaitingInitialStatus, initialStatus, paused,
                   expectingBreak, lastStop, continued, dropped, lastAccepted,
                   mapOp, parked, sideVars, proto, refused, disc, handleVars>>

\* The reply to pause, resume or a step command: their handlers do nothing.
ReplyFireAndForget ==
    /\ queue # <<>>
    /\ FireAndForget(Head(queue))
    /\ queue' = Tail(queue)
    /\ UNCHANGED <<phase, args, sources, sourceToGen, bps, target, init,
                   awaitingInitialStatus, initialStatus, paused,
                   expectingBreak, sbp, bpResp, lastStop, continued, dropped,
                   lastAccepted, mapOp, parked, sideVars, proto, refused, disc,
                   handleVars>>

\* ---------------------------------------------------------- disconnect

\* A plausible slip: doDisconnect without the test of the flag.
doDisconnectAgain(d, path) ==
    [d EXCEPT !.disconnected = TRUE, !.closed = d.closed + 1,
              !.responses = d.responses + 1,
              !.by = IF d.by = "none" THEN path ELSE d.by]

\* doDisconnect of disconnectRequest: nothing when the flag is set; else
\* the flag is set, the socket closed and the response sent.
doDisconnect(d, path) ==
    IF d.disconnected THEN d
    ELSE [d EXCEPT !.disconnected = TRUE, !.closed = d.closed + 1,
                   !.responses = d.responses + 1,
                   !.by = IF d.by = "none" THEN path ELSE d.by]

\* A plausible slip: the callback clears the timer and leaves it at that.
timerCleared(d) == [d EXCEPT !.timer = "fired"]

\* The callback of the timer: clearTimeout, then doDisconnect unless the
\* flag is set.
onTimeout(d) ==
    IF d.disconnected THEN [d EXCEPT !.timer = "fired"]
    ELSE doDisconnect([d EXCEPT !.timer = "fired"], "timeout")

\* disconnectRequest of an attached session: the timer is armed, the
\* breakpoint list emptied and removeAllTargetBreakpoints sends its
\* list-breakpoints command.
disconnectRequest ==
    /\ phase = "attached"
    /\ disc.pc = "none"
    /\ bps' = <<>>
    /\ queue' = Append(queue, Cmd("list", "disc"))
    /\ disc' = [IdleDisc EXCEPT !.pc = "list", !.timer = "armed"]
    /\ UNCHANGED <<phase, args, sources, sourceToGen, target, init,
                   awaitingInitialStatus, initialStatus, paused,
                   expectingBreak, sbp, bpResp, lastStop, continued, dropped,
                   lastAccepted, mapOp, parked, sideVars, proto, refused,
                   handleVars>>

\* The timer fires, TIMEOUT_MS after the request.
disconnectTimeout ==
    /\ disc.timer = "armed"
    /\ disc' = onTimeout(disc)
    /\ UNCHANGED <<bpVars, initVars, queue, stopVars, mapOp, parked, sideVars,
                   proto, refused, handleVars>>

DiscDeletes(n) == [i \in 1..n |-> DelCmd(n - i, "disc")]

\* The .then of disconnectRequest after removeAllTargetBreakpoints
\* resolved: nothing when the flag is set, else the detach command.
DiscCleared(d, q) ==
    IF d.disconnected
    THEN /\ disc' = [d EXCEPT !.pc = "skipped", !.left = 0]
         /\ queue' = q
    ELSE /\ disc' = [d EXCEPT !.pc = "detach", !.left = 0]
         /\ queue' = Append(q, Cmd("detach", "disc"))

\* The reply to list-breakpoints of the disconnect request. ERR: the
\* rejection passes every .catch(), none of which has a handler, and the
\* .then is skipped.
ReplyDiscList ==
    /\ queue # <<>>
    /\ Head(queue).cmd = "list" /\ Head(queue).owner = "disc"
    /\ \/ IF Len(target) < 1
          THEN DiscCleared(disc, Tail(queue))
          ELSE /\ queue' = Tail(queue) \o DiscDeletes(Len(target))
               /\ disc' = [disc EXCEPT !.pc = "dels", !.left = Len(target)]
       \/ /\ queue' = Tail(queue)
          /\ disc' = [disc EXCEPT !.pc = "rejected"]
    /\ UNCHANGED <<phase, args, sources, sourceToGen, bps, target, init,
                   awaitingInitialStatus, initialStatus, paused,
                   expectingBreak, sbp, bpResp, lastStop, continued, dropped,
                   lastAccepted, mapOp, parked, sideVars, proto, refused,
                   handleVars>>

\* The reply to one delete command of the disconnect request.
ReplyDiscDelete ==
    /\ queue # <<>>
    /\ Head(queue).cmd = "del" /\ Head(queue).owner = "disc"
    /\ IF DelAccepted(target, Head(queue).idx)
       THEN /\ target' = RemoveAt(target, Head(queue).idx)
            /\ IF AllAcknowledged(disc)
               THEN DiscCleared(disc, Tail(queue))
               ELSE /\ queue' = Tail(queue)
                    /\ disc' = [disc EXCEPT !.left = disc.left - 1]
       ELSE /\ queue' = Tail(queue)
            /\ disc' = [disc EXCEPT !.pc = "rejected",
                                    !.left = disc.left - 1]
            /\ UNCHANGED target
    /\ UNCHANGED <<phase, args, sources, sourceToGen, bps, init,
                   awaitingInitialStatus, initialStatus, paused,
                   expectingBreak, sbp, bpResp, lastStop, continued, dropped,
                   lastAccepted, mapOp, parked, sideVars, proto, refused,
                   handleVars>>

\* The reply to the detach command. REP: doDisconnect. ERR: the .then is
\* skipped.
ReplyDetach ==
    /\ queue # <<>>
    /\ Head(queue).cmd = "detach"
    /\ queue' = Tail(queue)
    /\ \/ disc' = doDisconnect([disc EXCEPT !.pc = "done"], "detach")
       \/ disc' = [disc EXCEPT !.pc = "rejected"]
    /\ UNCHANGED <<phase, args, sources, sourceToGen, bps, target, init,
                   awaitingInitialStatus, initialStatus, paused,
                   expectingBreak, sbp, bpResp, lastStop, continued, dropped,
                   lastAccepted, mapOp, parked, sideVars, proto, refused,
                   handleVars>>

\* A plausible slip: the handler logs the reason and sends no event.
TerminatedUnsent(d) == d

\* The handler of the protocol's 'disconnected' event, registered with
\* 'once': it sends one TerminatedEvent and is gone.
TerminatedOnce(d) ==
    IF d.terminated >= 1 THEN d ELSE [d EXCEPT !.terminated = 1]

\* The protocol reports that the transport is gone: the socket failed or
\* was closed by the target at any moment, or the session closed it. The
\* handler touches nothing but the event it sends.
onDisconnected ==
    /\ phase = "attached"
    /\ disc' = TerminatedOnce(disc)
    /\ disc' # disc
    /\ UNCHANGED <<phase, args, sources, sourceToGen, bps, target, init,
                   awaitingInitialStatus, initialStatus, paused,
                   expectingBreak, sbp, bpResp, lastStop, continued, dropped,
                   lastAccepted, mapOp, parked, sideVars, proto, refused,
                   queue, handleVars>>

DisconnectSteps ==
    \/ disconnectRequest
    \/ disconnectTimeout
    \/ ReplyDiscList
    \/ ReplyDiscDelete
    \/ ReplyDetach

\* ------------------------------------------------------ protocol engine

\* The engine that pairs commands with replies. The protocol carries no
\* request id: the engine keeps its pending requests in a queue, writes each
\* command to the socket when it is sent, and gives every reply or error
\* frame to the oldest pending request.

MaxSends == 3
MaxReplies == 3
MaxSocketEvents == 2

SessionVars == <<phase, args, sources, sourceToGen, bps, target, queue, init,
                 awaitingInitialStatus, initialStatus, paused, expectingBreak,
                 sbp, bpResp, lastStop, continued, dropped, lastAccepted,
                 mapOp, parked, sideVars, refused, handleVars>>

\* A request that has not been settled, and one settled by the k-th frame
\* (0: by the loss of the transport).
Unsettled == [state |-> "pending", by |-> 0, settles |-> 0]
Settle(o, state, k) == [state |-> state, by |-> k, settles |-> o.settles + 1]

\* A plausible slip: the newest pending request takes the frame.
Newest(pending) == Len(pending)

\* The place in the queue of the request a frame belongs to: the head.
Oldest(pending) == 1

\* The queue without its i-th request.
Without(pending, i) ==
    [j \in 1..(Len(pending) - 1) |-> IF j < i THEN pending[j] ELSE pending[j + 1]]

\* send: the command is written to the socket and its request joins the
\* queue, in the order of the calls.
send ==
    /\ phase = "attached"
    /\ proto.link = "up" /\ ~proto.fatal
    /\ proto.calls < MaxSends
    /\ LET id == proto.calls + 1
       IN proto' = [proto EXCEPT !.calls = id,
                                 !.wire = Append(@, id),
                                 !.pending = Append(@, id),
                                 !.outcome = Append(@, Unsettled)]
    /\ UNCHANGED <<SessionVars, disc>>

\* A plausible slip: a frame nobody waits for is dropped.
Dropped(p) == [p EXCEPT !.replies = @ + 1]

\* A frame nobody waits for: the engine is out of step with the target, and
\* says so.
Desync(p) == [p EXCEPT !.replies = @ + 1, !.fatal = TRUE]

\* onReply: a REP frame resolves and an ERR frame rejects the oldest pending
\* request, which leaves the queue.
onReply ==
    /\ phase = "attached"
    /\ proto.link = "up" /\ ~proto.fatal
    /\ proto.replies < MaxReplies
    /\ \E frame \in {"REP", "ERR"} :
         IF proto.pending = <<>>
         THEN proto' = Desync(proto)
         ELSE LET i == Oldest(proto.pending)
                  id == proto.pending[i]
                  k == proto.replies + 1
              IN proto' = [proto EXCEPT
                     !.replies = k,
                     !.pending = Without(@, i),
                     !.outcome[id] =
                         Settle(@, IF frame = "REP" THEN "resolved"
                                   ELSE "rejected", k)]
    /\ UNCHANGED <<SessionVars, disc>>

\* A plausible slip: the requests pending when the socket goes are left
\* waiting.
LeftPending(p) == [p EXCEPT !.link = "down", !.events = @ + 1]

\* The socket's error or close event: every pending request fails with a
\* transport error.
FailPending(p) ==
    [p EXCEPT !.link = "down", !.events = @ + 1, !.pending = <<>>,
              !.outcome = [id \in 1..Len(@) |->
                              IF @[id].state = "pending"
                              THEN Settle(@[id], "transport", 0)
                              ELSE @[id]]]

\* A socket event: the pending requests fail and, at the first event only,
\* the engine emits 'disconnected', which runs the session's handler.
socketEvent ==
    /\ phase = "attached"
    /\ proto.events < MaxSocketEvents
    /\ LET p == FailPending(proto)
       IN IF proto.notices = 0
          THEN /\ proto' = [p EXCEPT !.notices = 1]
               /\ disc' = TerminatedOnce(disc)
          ELSE /\ proto' = p
               /\ UNCHANGED disc
    /\ UNCHANGED SessionVars

\* ---------------------------------------------------------- value codec

\* TValPointer: the width of the pointer in bytes and its two 32-bit parts.
TValPointer(size, lopart, hipart) ==
    [size |-> size, lopart |-> lopart, hipart |-> hipart]
NullPtr == TValPointer(0, 0, 0)

\* n.toString( 16 ), as code units: no leading zero but for 0 itself.
RECURSIVE Hex(_)
Hex(n) ==
    LET d == n % 16
        unit == IF d < 10 THEN 48 + d ELSE 87 + d
    IN IF n < 16 THEN <<unit>> ELSE Append(Hex(n \div 16), unit)

\* toPaddedHex: zeros in front up to eight digits.
toPaddedHex(n) == [i \in 1..(8 - Len(Hex(n))) |-> 48] \o Hex(n)

\* TValPointer.toString: "0x", then the low part, after the high part unless
\* the pointer is four bytes wide.
toString(ptr) ==
    IF ptr.size = 4 THEN <<48, 120>> \o toPaddedHex(ptr.lopart)
    ELSE <<48, 120>> \o toPaddedHex(ptr.hipart) \o toPaddedHex(ptr.lopart)


\* DvalIB: the initial bytes of the values on the wire.
EOM == 0
REQ == 1
REP == 2
ERR == 3
NFY == 4
INT32 == 16
STR32 == 17
STR16 == 18
BUF32 == 19
BUF16 == 20
UNUSED == 21
UNDEFINED == 22
NULL == 23
IB_TRUE == 24
IB_FALSE == 25
NUMBER == 26
OBJECT == 27
POINTER == 28
LIGHTFUNC == 29
HEAPPTR == 30
STRV_MIN == 96
STRV_MAX == 127
INTV_SM_MIN == 128
INTV_SM_MAX == 191
\* A plausible slip: the range of the two-byte integers starts on the last
\* byte of the range of the one-byte integers.
LrgMinOnSmMax == INTV_SM_MAX
INTV_LRG_MIN == 192
INTV_LRG_MAX == 255

\* Big-endian fields. The four bytes of a field hold a signed integer in
\* two's complement (S32) or an unsigned one (U32; parts of pointers, lengths).
Be16(n) == <<n \div 256, n % 256>>
Be32(n) == <<(n \div 16777216) % 256, (n \div 65536) % 256,
             (n \div 256) % 256, n % 256>>
U16(b, i) == b[i] * 256 + b[i + 1]
U32(b, i) == ((b[i] * 256 + b[i + 1]) * 256 + b[i + 2]) * 256 + b[i + 3]
S32(b, i) ==
    (((IF b[i] >= 128 THEN b[i] - 256 ELSE b[i]) * 256 + b[i + 1]) * 256
        + b[i + 2]) * 256 + b[i + 3]

\* A value of the wire: its type, and what the type needs of a number
\* (integer, class id, flags), bytes (string, buffer, the eight bytes of a
\* double) and a pointer.
WireValue(t, n, s, ptr) == [t |-> t, n |-> n, s |-> s, ptr |-> ptr]
Marker(t) == WireValue(t, 0, <<>>, NullPtr)

\* A pointer on the wire: its size, then its bytes, the high part first.
PtrBytes(ptr) ==
    IF ptr.size = 8 THEN <<8>> \o Be32(ptr.hipart) \o Be32(ptr.lopart)
    ELSE <<4>> \o Be32(ptr.lopart)

\* The pointer whose size byte is at b[i].
PtrAt(b, i) ==
    IF b[i] = 8 THEN TValPointer(8, U32(b, i + 5), U32(b, i + 1))
    ELSE TValPointer(b[i], U32(b, i + 1), 0)

\* encode: the shortest representation the value fits.
encode(v) ==
    CASE v.t = "int" ->
           IF v.n >= 0 /\ v.n <= INTV_SM_MAX - INTV_SM_MIN
           THEN <<INTV_SM_MIN + v.n>>
           ELSE IF v.n >= 0 /\ v.n < (INTV_LRG_MAX - INTV_LRG_MIN + 1) * 256
           THEN <<INTV_LRG_MIN + (v.n \div 256), v.n % 256>>
           ELSE <<INT32>> \o Be32(v.n)
      [] v.t = "str" ->
           IF Len(v.s) <= STRV_MAX - STRV_MIN THEN <<STRV_MIN + Len(v.s)>> \o v.s
           ELSE IF Len(v.s) < 65536 THEN <<STR16>> \o Be16(Len(v.s)) \o v.s
           ELSE <<STR32>> \o Be32(Len(v.s)) \o v.s
      [] v.t = "buf" ->
           IF Len(v.s) < 65536 THEN <<BUF16>> \o Be16(Len(v.s)) \o v.s
           ELSE <<BUF32>> \o Be32(Len(v.s)) \o v.s
      [] v.t = "number" -> <<NUMBER>> \o v.s
      [] v.t = "object" -> <<OBJECT, v.n>> \o PtrBytes(v.ptr)
      [] v.t = "pointer" -> <<POINTER>> \o PtrBytes(v.ptr)
      [] v.t = "heapptr" -> <<HEAPPTR>> \o PtrBytes(v.ptr)
      [] v.t = "lightfunc" -> <<LIGHTFUNC>> \o Be16(v.n) \o PtrBytes(v.ptr)
      [] v.t = "unused" -> <<UNUSED>>
      [] v.t = "undefined" -> <<UNDEFINED>>
      [] v.t = "null" -> <<NULL>>
      [] v.t = "true" -> <<IB_TRUE>>
      [] v.t = "false" -> <<IB_FALSE>>
      [] v.t = "eom" -> <<EOM>>
      [] v.t = "req" -> <<REQ>>
      [] v.t = "rep" -> <<REP>>
      [] v.t = "err" -> <<ERR>>
      [] v.t = "nfy" -> <<NFY>>

\* The bytes that tell the length of the value at the head of b: the
\* initial byte and, where the type has one, the length field or the fields
\* up to the size of the pointer. -1: no value starts with this byte.
HeaderLen(ib) ==
    CASE ib \in {STR32, BUF32} -> 5
      [] ib \in {STR16, BUF16} -> 3
      [] ib = OBJECT -> 3
      [] ib \in {POINTER, HEAPPTR} -> 2
      [] ib = LIGHTFUNC -> 4
      [] ib \in {EOM, REQ, REP, ERR, NFY, INT32, UNUSED, UNDEFINED, NULL,
                 IB_TRUE, IB_FALSE, NUMBER} -> 1
      [] ib >= STRV_MIN /\ ib <= INTV_LRG_MAX -> 1
      [] OTHER -> -1

\* A plausible slip: the value is taken for complete once its header is.
HeaderOnly(b) == HeaderLen(b[1])

\* The length of the value at the head of b, whose header is present.
ValueLen(b) ==
    LET ib == b[1]
    IN CASE ib = STR32 \/ ib = BUF32 -> 5 + U32(b, 2)
         [] ib = STR16 \/ ib = BUF16 -> 3 + U16(b, 2)
         [] ib = OBJECT -> 3 + b[3]
         [] ib = POINTER \/ ib = HEAPPTR -> 2 + b[2]
         [] ib = LIGHTFUNC -> 4 + b[4]
         [] ib = INT32 -> 5
         [] ib = NUMBER -> 9
         [] ib >= STRV_MIN /\ ib <= STRV_MAX -> 1 + (ib - STRV_MIN)
         [] ib >= INTV_SM_MIN /\ ib <= INTV_SM_MAX -> 1
         [] ib >= INTV_LRG_MIN /\ ib <= INTV_LRG_MAX -> 2
         [] OTHER -> 1

\* decodeOne: the value at the head of b, all of whose bytes are present,
\* and the number of bytes it takes.
decodeOne(b) ==
    LET ib == b[1]
        n == ValueLen(b)
        value ==
          CASE ib = INT32 -> WireValue("int", S32(b, 2), <<>>, NullPtr)
            [] ib >= INTV_SM_MIN /\ ib <= INTV_SM_MAX ->
                 WireValue("int", ib - INTV_SM_MIN, <<>>, NullPtr)
            [] ib >= INTV_LRG_MIN /\ ib <= INTV_LRG_MAX ->
                 WireValue("int", (ib - INTV_LRG_MIN) * 256 + b[2], <<>>, NullPtr)
            [] ib >= STRV_MIN /\ ib <= STRV_MAX ->
                 WireValue("str", 0, SubSeq(b, 2, n), NullPtr)
            [] ib = STR16 -> WireValue("str", 0, SubSeq(b, 4, n), NullPtr)
            [] ib = STR32 -> WireValue("str", 0, SubSeq(b, 6, n), NullPtr)
            [] ib = BUF16 -> WireValue("buf", 0, SubSeq(b, 4, n), NullPtr)
            [] ib = BUF32 -> WireValue("buf", 0, SubSeq(b, 6, n), NullPtr)
            [] ib = NUMBER -> WireValue("number", 0, SubSeq(b, 2, 9), NullPtr)
            [] ib = OBJECT -> WireValue("object", b[2], <<>>, PtrAt(b, 3))
            [] ib = POINTER -> WireValue("pointer", 0, <<>>, PtrAt(b, 2))
            [] ib = HEAPPTR -> WireValue("heapptr", 0, <<>>, PtrAt(b, 2))
            [] ib = LIGHTFUNC -> WireValue("lightfunc", U16(b, 2), <<>>, PtrAt(b, 4))
            [] ib = UNUSED -> Marker("unused")
            [] ib = UNDEFINED -> Marker("undefined")
            [] ib = NULL -> Marker("null")
            [] ib = IB_TRUE -> Marker("true")
            [] ib = IB_FALSE -> Marker("false")
            [] ib = EOM -> Marker("eom")
            [] ib = REQ -> Marker("req")
            [] ib = REP -> Marker("rep")
            [] ib = ERR -> Marker("err")
            [] ib = NFY -> Marker("nfy")
    IN [value |-> value, consumed |-> n]

\* The values the codec is tried on: the integers at the ends of the one-
\* and two-byte ranges and of the 32-bit range, every string of up to
\* MaxShort bytes that are 0 or 97, strings one byte around the longest
\* packed string, buffers, a double, pointers four and eight bytes wide, and
\* every value without content.
MaxShort == 2

Integers32 ==
    {-2147483647 - 1, -1, 0, 1, INTV_SM_MAX - INTV_SM_MIN,
     INTV_SM_MAX - INTV_SM_MIN + 1, 255, 256,
     (INTV_LRG_MAX - INTV_LRG_MIN + 1) * 256 - 1,
     (INTV_LRG_MAX - INTV_LRG_MIN + 1) * 256, 2147483647}

ShortStrings == UNION {[1..k -> {0, 97}] : k \in 0..MaxShort}

LongStrings ==
    {[i \in 1..k |-> 97] : k \in (STRV_MAX - STRV_MIN - 1)..(STRV_MAX - STRV_MIN + 2)}

Pointers == {TValPointer(4, 1, 0), TValPointer(4, 2147483647, 0),
             TValPointer(8, 1, 0), TValPointer(8, 1, 2)}

WireValues ==
    {WireValue("int", n, <<>>, NullPtr) : n \in Integers32}
    \cup {WireValue(t, 0, s, NullPtr) :
              t \in {"str", "buf"}, s \in ShortStrings \cup LongStrings}
    \cup {WireValue("number", 0, <<64, 9, 33, 251, 84, 68, 45, 24>>, NullPtr)}
    \cup {WireValue("object", 10, <<>>, p) : p \in Pointers}
    \cup {WireValue(t, 0, <<>>, p) : t \in {"pointer", "heapptr"}, p \in Pointers}
    \cup {WireValue("lightfunc", 258, <<>>, p) : p \in Pointers}
    \cup {Marker(t) : t \in {"unused", "undefined", "null", "true", "false",
                             "eom", "req", "rep", "err", "nfy"}}

\* The bytes that may follow a value in the buffer.
Trailing == {<<>>, <<0>>, <<255, 18>>}

\* One value is encoded, other bytes follow it, and the head of the bytes is
\* decoded.
codec ==
    /\ phase = "attached"
    /\ \E v \in WireValues, rest \in Trailing :
         LET b == encode(v) \o rest
         IN proto' = [proto EXCEPT !.value = v, !.bytes = b,
                                   !.decoded = decodeOne(b)]
    /\ UNCHANGED <<SessionVars, disc>>

\* -------------------------------------------------------------- framing

\* The framer: the bytes received and not yet decoded, the values of the
\* message being received, and the messages dispatched. The target writes
\* whole messages; the socket delivers their bytes in chunks of any size.

MaxMessages == 2

\* The messages the target writes: a reply without values, replies and a
\* notification with values of one, two and more bytes, among them strings
\* and buffers that hold the byte of EOM.
Messages ==
    {<<Marker("rep")>>,
     <<Marker("rep"), WireValue("int", 64, <<>>, NullPtr)>>,
     <<Marker("err"), WireValue("int", 1, <<>>, NullPtr),
       WireValue("str", 0, <<0, 97>>, NullPtr)>>,
     <<Marker("rep"), WireValue("buf", 0, <<0>>, NullPtr)>>,
     <<Marker("nfy"), WireValue("int", 0, <<>>, NullPtr),
       WireValue("pointer", 0, <<>>, TValPointer(4, 1, 0))>>}

\* The bytes of a message: its values one after the other, then EOM.
RECURSIVE EncodeValues(_)
EncodeValues(m) ==
    IF m = <<>> THEN <<>> ELSE encode(Head(m)) \o EncodeValues(Tail(m))

EncodeMessage(m) == EncodeValues(m) \o <<EOM>>

\* The bytes at the head of b are a whole value: its header is there, and so
\* are all the bytes the header announces.
Complete(b) ==
    /\ b # <<>>
    /\ HeaderLen(b[1]) >= 1
    /\ Len(b) >= HeaderLen(b[1])
    /\ Len(b) >= ValueLen(b)

\* The framer takes every whole value off its buffer; EOM dispatches the
\* message and starts the next.
RECURSIVE Drain(_)
Drain(f) ==
    IF ~Complete(f.buf) THEN f
    ELSE LET d == decodeOne(f.buf)
             rest == SubSeq(f.buf, d.consumed + 1, Len(f.buf))
         IN IF d.value.t = "eom"
            THEN Drain([buf |-> rest, cur |-> <<>>,
                        msgs |-> Append(f.msgs, f.cur)])
            ELSE Drain([buf |-> rest, cur |-> Append(f.cur, d.value),
                        msgs |-> f.msgs])

\* A plausible slip: what is left of a chunk is forgotten.
Forgotten(rest) == <<>>

\* The bytes of a value cut by the end of the chunk wait for the next chunk.
Buffered(rest) == rest

\* The target writes a message to its end of the socket.
targetWrites ==
    /\ phase = "attached"
    /\ Len(proto.written) < MaxMessages
    /\ \E m \in Messages :
         proto' = [proto EXCEPT !.written = Append(@, m),
                                !.out = @ \o EncodeMessage(m)]
    /\ UNCHANGED <<SessionVars, disc>>

\* The socket's data event: a chunk of any size, from what the target has
\* written, is appended to the buffer and the buffer drained.
onData ==
    /\ phase = "attached"
    /\ \E k \in 1..Len(proto.out) :
         LET chunk == SubSeq(proto.out, 1, k)
             f == Drain([buf |-> proto.buf \o chunk, cur |-> proto.cur,
                         msgs |-> proto.msgs])
         IN proto' = [proto EXCEPT
                !.out = SubSeq(@, k + 1, Len(@)),
                !.fed = @ \o chunk,
                !.buf = Buffered(f.buf),
                !.cur = f.cur,
                !.msgs = f.msgs]
    /\ UNCHANGED <<SessionVars, disc>>

\* ------------------------------------------------------- notifications

Statuses == [state : {"paused", "running"}, filename : TargetNames,
             linenumber : GenLines]

\* The position a paused status reports, translated to the original source.
StatusPos(src, status) ==
    generated2Source(src, convertDebuggerLineToClient(status.linenumber))

\* The reason of the StoppedEvent: "breakpoint" when find returned an entry,
\* else the pending reason.
StopReason(found, expecting) == IF found THEN "breakpoint" ELSE expecting

\* A plausible slip: every status is acted upon from the start.
InitialStatusAssumed(is) == TRUE

\* The test of _initialStatus that opens the nfy_status handler.
InitialStatusTaken(is) == is # NoStatus

\* The nfy_status handler. Until an initial status has been taken, a status
\* is at most remembered (when one is awaited) and never acted upon.
nfy_status(S) ==
    /\ phase = "attached"
    /\ \E status \in S :
         IF ~InitialStatusTaken(initialStatus)
         THEN /\ IF awaitingInitialStatus
                 THEN /\ initialStatus' = [NoStatus EXCEPT !.state = status.state]
                      /\ awaitingInitialStatus' = FALSE
                      /\ dropped' = FALSE
                 ELSE /\ dropped' = TRUE
                      /\ UNCHANGED <<initialStatus, awaitingInitialStatus>>
              /\ UNCHANGED <<sources, sourceToGen, paused, expectingBreak,
                             lastStop, continued, lastAccepted, stackFrames,
                             scopes, varHandles, ptrHandles, st, sc, vr, issued>>
         ELSE IF status.state = "paused"
         THEN LET ms == mapSourceFile(status.filename, sources, sourceToGen, args)
                  pos == IF ms.src # NoSrc THEN StatusPos(ms.src, status)
                         ELSE [path |-> "", fileName |-> "", line |-> 0]
                  f == IF ms.src # NoSrc THEN find(bps, pos.fileName, pos.line)
                       ELSE [bp |-> Null, threw |-> FALSE]
              IN /\ sources' = ms.sources
                 /\ sourceToGen' = ms.sourceToGen
                 /\ IF f.threw
                    THEN UNCHANGED <<stopVars, stackFrames, scopes, varHandles,
                                     ptrHandles, st, sc, vr, issued>>
                    ELSE /\ stackFrames' = <<>>
                         /\ scopes' = <<>>
                         /\ varHandles' = <<>>
                         /\ ptrHandles' = {}
                         /\ paused' = TRUE
                         /\ continued' = FALSE
                         /\ dropped' = FALSE
                         /\ lastStop' =
                                [seq |-> 1 - lastStop.seq,
                                 reason |-> StopReason(f.bp # Null, expectingBreak),
                                 path |-> pos.path, fileName |-> pos.fileName,
                                 line |-> pos.line]
                         /\ expectingBreak' = "debugger"
                         /\ lastAccepted' = "none"
                         /\ st' = [st EXCEPT !.stale = st.pc \in {"isGlobal", "ctor"}]
                         /\ sc' = [sc EXCEPT
                                      !.stale = sc.pc \in {"evals", "toStr", "ctor"}]
                         /\ vr' = [vr EXCEPT
                                      !.stale = vr.pc \in {"inspect", "proprange",
                                                           "toStr", "ctor"}]
                         /\ issued' = {[e EXCEPT !.when = "old"] : e \in issued}
                 /\ UNCHANGED <<initialStatus, awaitingInitialStatus>>
         ELSE /\ paused' = FALSE
              /\ continued' = (continued \/ paused)
              /\ dropped' = FALSE
              /\ UNCHANGED <<sources, sourceToGen, initialStatus,
                             awaitingInitialStatus, expectingBreak, lastStop,
                             lastAccepted, stackFrames, scopes, varHandles,
                             ptrHandles, st, sc, vr, issued>>
    /\ UNCHANGED <<phase, args, bps, target, queue, init, sbp, bpResp, mapOp,
                   parked, sideVars, proto, refused, disc, varResp>>

\* The nfy_throw handler.
nfy_throw ==
    /\ phase = "attached"
    /\ expectingBreak' = "Exception"
    /\ lastAccepted' = "Exception"
    /\ UNCHANGED <<bpVars, initVars, queue, paused, lastStop, continued,
                   dropped, mapOp, parked, sideVars, proto, refused, disc,
                   handleVars>>

\* ---------------------------------------------------------- run control

StepCommands == {[req |-> "next", reason |-> "step", cmd |-> "stepover"],
                 [req |-> "stepIn", reason |-> "stepin", cmd |-> "stepinto"],
                 [req |-> "stepOut", reason |-> "stepout", cmd |-> "stepout"]}

\* A plausible slip: a step request leaves the pending reason alone.
StepReasonKept(s, expecting) == expecting

\* The pending stop reason after an accepted step request.
StepReason(s, expecting) == s.reason

\* requestFailedResponse of a run-control request: the error response goes
\* to the front end.
requestFailedResponse(req) ==
    refused' = [req |-> req, seq |-> 1 - refused.seq]

\* A plausible slip: the pending reason is set before the test of the flag.
ReasonSetFirst(s, expecting) == s.reason

\* The pending stop reason after a step request that is refused: the
\* request returns before it is set.
ReasonKept(s, expecting) == expecting

\* nextRequest, stepInRequest, stepOutRequest: refused with an error response
\* when not paused; otherwise the pending reason is set and the step command
\* sent.
stepRequest ==
    /\ phase = "attached"
    /\ \E s \in StepCommands :
         IF ~paused
         THEN /\ requestFailedResponse(s.req)
              /\ expectingBreak' = ReasonKept(s, expectingBreak)
              /\ UNCHANGED <<lastAccepted, queue>>
         ELSE /\ NumFireAndForget < MaxFireAndForget
              /\ expectingBreak' = StepReason(s, expectingBreak)
              /\ lastAccepted' = s.reason
              /\ queue' = Append(queue, Cmd(s.cmd, "none"))
              /\ UNCHANGED refused
    /\ UNCHANGED <<bpVars, initVars, paused, lastStop, continued, dropped,
                   mapOp, parked, sideVars, proto, disc, handleVars>>

\* pauseRequest: refused when paused already.
pauseRequest ==
    /\ phase = "attached"
    /\ IF paused
       THEN /\ requestFailedResponse("pause")
            /\ UNCHANGED <<expectingBreak, lastAccepted, queue>>
       ELSE /\ NumFireAndForget < MaxFireAndForget
            /\ expectingBreak' = "pause"
            /\ lastAccepted' = "pause"
            /\ queue' = Append(queue, Cmd("pause", "none"))
            /\ UNCHANGED refused
    /\ UNCHANGED <<bpVars, initVars, paused, lastStop, continued, dropped,
                   mapOp, parked, sideVars, proto, disc, handleVars>>

\* continueRequest: refused when not paused; the resume command's reply only
\* sends the response.
continueRequest ==
    /\ phase = "attached"
    /\ IF ~paused
       THEN /\ requestFailedResponse("continue")
            /\ UNCHANGED queue
       ELSE /\ NumFireAndForget < MaxFireAndForget
            /\ queue' = Append(queue, Cmd("resume", "none"))
            /\ UNCHANGED refused
    /\ UNCHANGED <<bpVars, initVars, stopVars, mapOp, parked, sideVars, proto,
                   disc, handleVars>>

\* ---------------------------------------------------------------- handles

\* Handles.START_HANDLE: the first handle a fresh table gives out.
START_HANDLE == 1000

MaxFrames == 1
MaxLocals == 1

\* Entries a handle table holds at most within one pause.
MaxHandles == 1

\* An object of a handle table. A PropertySet has its type as kind, its
\* variables (by name; 'resolved' tells an empty array from undefined), the
\* handles its variables refer to, its heapPtr and displayName. 'stale'
\* marks a set registered by an expansion of an earlier pause.
\* A property set, a scope or a stack frame. 'refs' holds, for each variable
\* of a property set that refers to one, the heap pointer of its value and
\* its variablesReference; 'inspects' counts the inspect-heap-object
\* commands sent for an Object property set.
NoObj == [kind |-> "none", depth |-> 0, klass |-> "", variables |-> <<>>,
          resolved |-> FALSE, refs |-> {}, heapPtr |-> NullPtr,
          displayName |-> "", stale |-> FALSE, inspects |-> 0,
          scopes |-> 0, properties |-> 0]
DukStackFrame(depth) == [NoObj EXCEPT !.kind = "frame", !.depth = depth]
DukScope(depth) == [NoObj EXCEPT !.kind = "scope", !.depth = depth]
PropertySet(type) == [NoObj EXCEPT !.kind = type]

\* Handles.get: the object of a handle, or nothing.
get(tbl, handle) ==
    IF handle - START_HANDLE + 1 \in 1..Len(tbl)
    THEN tbl[handle - START_HANDLE + 1]
    ELSE NoObj

\* Handles.create: the handle the next create returns.
NextHandle(tbl) == START_HANDLE + Len(tbl)

\* Variable names the target reports as locals, in wire order.
LocalNames == [i \in 1..MaxLocals |-> IF i = 1 THEN "x" ELSE "10"]

\* The UTF-16 code units of the names that occur.
CodeUnits(name) ==
    CASE name = "" -> <<>>
      [] name = "2" -> <<50>>
      [] name = "10" -> <<49, 48>>
      [] name = "a" -> <<97>>
      [] name = "b" -> <<98>>
      [] name = "o" -> <<111>>
      [] name = "x" -> <<120>>
      [] name = "this" -> <<116, 104, 105, 115>>
      [] name = "__artificial" ->
             <<95, 95, 97, 114, 116, 105, 102, 105, 99, 105, 97, 108>>

\* NaN, among the numbers of the names, which are not negative.
NaN == -1

RECURSIVE Decimal(_, _)
Decimal(units, acc) ==
    IF units = <<>> THEN acc
    ELSE Decimal(Tail(units), 10 * acc + Head(units) - 48)

\* Number(name): the value of a string of decimal digits, 0 for the empty
\* string, NaN for the other names that occur.
NumberOf(name) ==
    IF \A i \in 1..Len(CodeUnits(name)) : CodeUnits(name)[i] \in 48..57
    THEN Decimal(CodeUnits(name), 0)
    ELSE NaN

\* a < b on strings: the order of the first code unit that differs, a proper
\* prefix first.
RECURSIVE UnitsLess(_, _)
UnitsLess(u, v) ==
    IF v = <<>> THEN FALSE
    ELSE IF u = <<>> THEN TRUE
    ELSE IF Head(u) # Head(v) THEN Head(u) < Head(v)
    ELSE UnitsLess(Tail(u), Tail(v))

StrLess(a, b) == UnitsLess(CodeUnits(a), CodeUnits(b))

\* The comparator of returnVars.
Compare(a, b) ==
    LET aIsNum == NumberOf(a) # NaN
        bIsNum == NumberOf(b) # NaN
    IN IF ~aIsNum /\ bIsNum THEN -1
       ELSE IF aIsNum /\ ~bIsNum THEN 1
       ELSE IF aIsNum /\ bIsNum
            THEN (IF NumberOf(a) < NumberOf(b) THEN -1
                  ELSE IF NumberOf(a) > NumberOf(b) THEN 1 ELSE 0)
       ELSE IF StrLess(a, b) THEN -1
       ELSE IF StrLess(b, a) THEN 1 ELSE 0

SortsBefore(a, b) == Compare(a, b) < 0

RECURSIVE Insert(_, _)
Insert(name, sorted) ==
    IF sorted = <<>> THEN <<name>>
    ELSE IF SortsBefore(name, Head(sorted)) THEN <<name>> \o sorted
    ELSE <<Head(sorted)>> \o Insert(name, Tail(sorted))

\* Array.sort with the comparator.
RECURSIVE SortVars(_)
SortVars(vs) == IF vs = <<>> THEN <<>> ELSE Insert(Head(vs), SortVars(Tail(vs)))

\* returnVars: every property set but an Artificials one is sorted.
returnVars(propSet) ==
    IF propSet.kind # "Artificials" THEN SortVars(propSet.variables)
    ELSE propSet.variables

EvalResults == {"global", "other", "fail"}

\* The depth of the i-th entry of the call stack (-i-1 for the 0-based i of
\* the code).
FrameDepth(i) == 0 - i

\* stackTraceRequest: refused while not paused; otherwise the call stack is
\* asked for. The request is made while the stack-frame table has room for
\* maxFrames more frames below cap.
stackTraceRequest(maxFrames, cap) ==
    /\ phase = "attached"
    /\ st.pc = "idle"
    /\ Len(stackFrames) + maxFrames <= cap
    /\ IF ~paused
       THEN /\ st' = IdleSt
            /\ UNCHANGED queue
       ELSE /\ queue' = Append(queue, Cmd("callstack", "st"))
            /\ st' = [IdleSt EXCEPT !.pc = "callstack"]
    /\ UNCHANGED <<bpVars, initVars, stopVars, mapOp, parked, sideVars, proto,
                   refused, disc, stackFrames, scopes, varHandles, ptrHandles,
                   sc, issued, varResp, vr>>

\* When the handles of a request are sent, relative to the pauses.
IssuedWhen(r) ==
    IF r.stale THEN "old" ELSE IF paused THEN "paused" ELSE "running"

\* doRespond of stackTraceRequest: the frames, with their handles, go to the
\* front end.
StRespond(r) ==
    /\ st' = IdleSt
    /\ issued' = issued \cup {[kind |-> "frame", handle |-> r.frames[i],
                               when |-> IssuedWhen(r)] : i \in 1..Len(r.frames)}

\* A plausible slip: the response does not wait for the constructor names.
doRespondAtOnce(r, index, q) ==
    /\ StRespond(r)
    /\ queue' = q

\* doApplyConstructors(index): the evaluation of String(this) for the frame,
\* at the frame's depth, or the response after the last frame.
doApplyConstructors(r, index, q) ==
    IF index > Len(r.frames)
    THEN /\ StRespond(r)
         /\ queue' = q
    ELSE /\ queue' = Append(q, EvalCmd("st", FrameDepth(index)))
         /\ st' = [r EXCEPT !.pc = "isGlobal", !.index = index]
         /\ UNCHANGED issued

\* The reply to get-call-stack: one frame per entry, each registered in the
\* stack-frame table of the moment, deepest first at depth -1. An ERR is
\* answered with an empty frame list.
ReplyCallStack(maxFrames) ==
    /\ queue # <<>>
    /\ Head(queue).cmd = "callstack"
    /\ \/ \E n \in 1..maxFrames :
            /\ stackFrames' = stackFrames \o [i \in 1..n |-> DukStackFrame(FrameDepth(i))]
            /\ doApplyConstructors(
                   [st EXCEPT !.frames = [i \in 1..n |-> NextHandle(stackFrames) + i - 1]],
                   1, Tail(queue))
       \/ /\ queue' = Tail(queue)
          /\ st' = IdleSt
          /\ UNCHANGED <<stackFrames, issued>>
    /\ UNCHANGED <<bpVars, initVars, stopVars, mapOp, parked, sideVars, proto,
                   refused, disc, scopes, varHandles, ptrHandles, sc, varResp,
                   vr>>

\* The frame of the request is still the table's entry when no reset has
\* replaced the table since.
SetKlass(r, c) ==
    IF ~r.stale /\ get(stackFrames, r.frames[r.index]).kind = "frame"
    THEN [stackFrames EXCEPT ![r.frames[r.index] - START_HANDLE + 1].klass = c]
    ELSE stackFrames

\* The replies to the evaluations of getObjectConstructorByName: String(this)
\* first and, unless it names the global object or failed, the constructor
\* expression.
ReplyStEval ==
    /\ queue # <<>>
    /\ Head(queue).cmd = "eval" /\ Head(queue).owner = "st"
    /\ \E res \in EvalResults :
         IF st.pc = "isGlobal" /\ res = "other"
         THEN /\ queue' = Append(Tail(queue), EvalCmd("st", FrameDepth(st.index)))
              /\ st' = [st EXCEPT !.pc = "ctor"]
              /\ UNCHANGED <<stackFrames, issued>>
         ELSE /\ stackFrames' =
                    SetKlass(st, IF st.pc = "ctor" /\ res # "fail" THEN "K" ELSE "")
              /\ doApplyConstructors(st, st.index + 1, Tail(queue))
    /\ UNCHANGED <<bpVars, initVars, stopVars, mapOp, parked, sideVars, proto,
                   refused, disc, scopes, varHandles, ptrHandles, sc, varResp,
                   vr>>

\* The frame handles and property-set handles the front end has been sent.
IssuedHandles(kind) == {e.handle : e \in {x \in issued : x.kind = kind}}

\* No command of the request of the given owner is waiting for its reply.
NoCommandOf(owner) == \A i \in 1..Len(queue) : queue[i].owner # owner

\* scopesRequest (scopeRequestForLocals). The assert refuses the request
\* while not paused. The scope is registered before the frame is touched, so
\* a frame handle the table does not know leaves a scope behind and throws.
scopesRequest ==
    /\ phase = "attached"
    /\ sc.pc \in {"idle", "dead"}
    /\ NoCommandOf("sc")
    /\ Len(scopes) < MaxHandles /\ Len(varHandles) < MaxHandles
    /\ \E frameId \in IssuedHandles("frame") :
         IF ~paused
         THEN /\ sc' = IdleSc
              /\ UNCHANGED <<scopes, stackFrames, queue>>
         ELSE /\ scopes' = Append(scopes,
                                  DukScope(get(stackFrames, frameId).depth))
              /\ IF get(stackFrames, frameId) = NoObj
                 THEN /\ sc' = IdleSc
                      /\ UNCHANGED <<stackFrames, queue>>
                 ELSE /\ stackFrames' =
                           [stackFrames EXCEPT
                               ![frameId - START_HANDLE + 1].scopes =
                                   NextHandle(scopes)]
                      /\ queue' = Append(queue, Cmd("locals", "sc"))
                      /\ sc' = [IdleSc EXCEPT !.pc = "locals",
                                              !.scope = NextHandle(scopes)]
    /\ UNCHANGED <<bpVars, initVars, stopVars, mapOp, parked, sideVars, proto,
                   refused, disc, varHandles, ptrHandles, st, issued, varResp,
                   vr>>

\* The reply to get-locals: the names of the locals, then the evaluation of
\* String(this). After an ERR the catch handler fills the response body and
\* sends nothing.
ReplyLocals ==
    /\ queue # <<>>
    /\ Head(queue).cmd = "locals"
    /\ \/ \E k \in 0..MaxLocals :
            /\ queue' = Append(Tail(queue), Cmd("eval", "sc"))
            /\ sc' = [sc EXCEPT !.pc = "isGlobal", !.keys = SubSeq(LocalNames, 1, k)]
       \/ /\ queue' = Tail(queue)
          /\ sc' = [IdleSc EXCEPT !.pc = "dead"]
    /\ UNCHANGED <<bpVars, initVars, stopVars, mapOp, parked, sideVars, proto,
                   refused, disc, stackFrames, scopes, varHandles, ptrHandles,
                   st, issued, varResp, vr>>

\* propSet.variables of the request's property set: the set is still the
\* table's entry when no reset has replaced the table since.
SetVariables(tbl, r, names, refs) ==
    IF ~r.stale /\ get(tbl, r.propSet).kind \in {"Scope", "Object"}
    THEN [tbl EXCEPT ![r.propSet - START_HANDLE + 1].variables = names,
                     ![r.propSet - START_HANDLE + 1].refs = refs]
    ELSE tbl

\* The end of scopeRequestForLocals: the scope, with the handle of its
\* property set, goes to the front end.
ScRespond(r) ==
    /\ sc' = IdleSc
    /\ issued' = issued \cup {[kind |-> "var", handle |-> r.propSet,
                               when |-> IssuedWhen(r)]}

\* The reply to String(this) of isGlobalObjectByName, then
\* expandScopeProperties: a property set is registered in the table of the
\* moment and every key is evaluated. A failed evaluation rejects, and the
\* catch handler sends nothing.
ReplyScIsGlobal ==
    /\ queue # <<>>
    /\ Head(queue).cmd = "eval" /\ Head(queue).owner = "sc"
    /\ sc.pc = "isGlobal"
    /\ \E res \in EvalResults :
         IF res = "fail"
         THEN /\ queue' = Tail(queue)
              /\ sc' = [IdleSc EXCEPT !.pc = "dead"]
              /\ UNCHANGED <<varHandles, scopes, issued>>
         ELSE LET keys == IF res = "global" THEN sc.keys ELSE <<"this">> \o sc.keys
                  r == [sc EXCEPT !.keys = keys, !.propSet = NextHandle(varHandles),
                                  !.left = Len(keys), !.pc = "evals"]
              IN /\ varHandles' =
                       Append(varHandles,
                              [PropertySet("Scope") EXCEPT !.resolved = TRUE])
                 /\ scopes' = IF get(scopes, sc.scope).kind = "scope"
                              THEN [scopes EXCEPT
                                       ![sc.scope - START_HANDLE + 1].properties =
                                           NextHandle(varHandles)]
                              ELSE scopes
                 /\ IF keys = <<>>
                    THEN /\ ScRespond(r)
                         /\ queue' = Tail(queue)
                    ELSE /\ sc' = r
                         /\ queue' = Tail(queue) \o [i \in 1..Len(keys) |-> Cmd("eval", "sc")]
                         /\ UNCHANGED issued
    /\ UNCHANGED <<bpVars, initVars, stopVars, mapOp, parked, sideVars, proto,
                   refused, disc, stackFrames, ptrHandles, st, varResp, vr>>

\* A property as the target reports it: its key, and whether its value is a
\* primitive, an object of a built-in class or a plain object, with the
\* object's heap pointer.
Prop(key, value) == [key |-> key, kind |-> value.kind, ptr |-> value.ptr]
Primitive == [kind |-> "prim", ptr |-> NullPtr]
Failed == [kind |-> "fail", ptr |-> NullPtr]

\* The variablesReference of a variable, with the heap pointer of its value:
\* none for the node of the artificial properties.
Ref(ptr, handle) == [ptr |-> ptr, handle |-> handle]

\* The class name of the built-in objects that occur.
BuiltinName == "Array"

\* The first loop of resolvePropertySetVariables, from the tables of the
\* moment: a variable per key; for an object value the property set its
\* pointer is registered with, or a new one, registered in both tables; the
\* variables that wait for their toString() evaluation.
\* A plausible slip: the pointer map is never consulted.
NeverCached(ptrs, ptrStr) == {}

\* this._dbgState.ptrHandles[ptrStr]
Cached(ptrs, ptrStr) == {e \in ptrs : e.ptr = ptrStr}

RECURSIVE resolveKeys(_, _, _)
resolveKeys(props, acc, stale) ==
    IF props = <<>> THEN acc
    ELSE LET p == Head(props)
             ptrStr == toString(p.ptr)
             known == Cached(acc.ptrHandles, ptrStr)
             old == (CHOOSE e \in known : TRUE).handle
             new == NextHandle(acc.varHandles)
             named == [acc EXCEPT !.names = Append(@, p.key)]
         IN IF p.kind = "prim" THEN resolveKeys(Tail(props), named, stale)
            ELSE IF known # {}
            THEN resolveKeys(Tail(props),
                     [named EXCEPT
                         !.refs = @ \cup {Ref(p.ptr, old)},
                         !.objVars =
                             IF get(acc.varHandles, old).displayName # "" THEN @
                             ELSE Append(@, old)],
                     stale)
            ELSE resolveKeys(Tail(props),
                     [named EXCEPT
                         !.varHandles =
                             Append(@, [PropertySet("Object") EXCEPT
                                           !.heapPtr = p.ptr,
                                           !.stale = stale,
                                           !.displayName =
                                               IF p.kind = "builtin"
                                               THEN BuiltinName ELSE ""]),
                         !.ptrHandles = @ \cup {[ptr |-> ptrStr, handle |-> new,
                                                 stale |-> stale]},
                         !.refs = @ \cup {Ref(p.ptr, new)},
                         !.objVars = IF p.kind = "builtin" THEN @
                                     ELSE Append(@, new)],
                     stale)

resolvePropertySetVariables(props, tbl, ptrs, stale) ==
    resolveKeys(props,
                [varHandles |-> tbl, ptrHandles |-> ptrs, names |-> <<>>,
                 refs |-> {}, objVars |-> <<>>],
                stale)

\* The results of a toString() evaluation: a string of its own, "[object
\* Object]", an unsuccessful evaluation, or an ERR reply.
ToStrResults == {"named", "plain", "unsuccessful", "ERR"}

\* rName of a toString() result.
DisplayNameOf(res) ==
    CASE res = "named" -> "Name"
      [] res = "plain" -> "[object Object]"
      [] OTHER -> "Object"

\* The loop over the toString() results: for a plain object the evaluation
\* of its constructor name is sent, then the display name is written to the
\* property set the table of the moment holds under the variable's handle;
\* that throws when the table holds none.
RECURSIVE setDisplayNames(_, _, _, _)
setDisplayNames(objVars, results, acc, stale) ==
    IF objVars = <<>> THEN acc
    ELSE LET sent == IF Head(results) = "plain" THEN acc.ctors + 1 ELSE acc.ctors
         IN IF get(acc.varHandles, Head(objVars)) = NoObj
            THEN [acc EXCEPT !.ctors = sent, !.threw = TRUE]
            ELSE setDisplayNames(Tail(objVars), Tail(results),
                     [acc EXCEPT
                         !.ctors = sent,
                         !.varHandles[Head(objVars) - START_HANDLE + 1] =
                             [@ EXCEPT !.displayName = DisplayNameOf(Head(results)),
                                       !.stale = @ \/ stale]],
                     stale)

\* The evaluations a request sends for its display names.
NameEvals(owner, n) == [i \in 1..n |-> Cmd("eval", owner)]

\* What follows the first loop of resolvePropertySetVariables in a request:
\* the toString() evaluations, if there are any.
AwaitNames(r, objVars) ==
    [r EXCEPT !.pc = "toStr", !.left = Len(objVars), !.objVars = objVars,
              !.results = <<>>]

\* The end of expandScopeProperties for the successful keys: the variables
\* are resolved; without toString() evaluations the response follows.
ResolveScope(r, q) ==
    IF r.pKeys = <<>>
    THEN /\ ScRespond(r)
         /\ queue' = q
         /\ UNCHANGED <<varHandles, ptrHandles>>
    ELSE LET res == resolvePropertySetVariables(
                        [i \in 1..Len(r.pKeys) |-> Prop(r.pKeys[i], r.pVals[i])],
                        varHandles, ptrHandles, r.stale)
         IN /\ varHandles' = SetVariables(res.varHandles, r, res.names, res.refs)
            /\ ptrHandles' = res.ptrHandles
            /\ IF res.objVars = <<>>
               THEN /\ ScRespond(r)
                    /\ queue' = q
               ELSE /\ sc' = AwaitNames(r, res.objVars)
                    /\ queue' = q \o NameEvals("sc", Len(res.objVars))
                    /\ UNCHANGED issued

\* The reply to the evaluation of one key: a failed one is left out. After
\* the last reply resolvePropertySetVariables fills the property set.
ReplyScEval(Values) ==
    /\ queue # <<>>
    /\ Head(queue).cmd = "eval" /\ Head(queue).owner = "sc"
    /\ sc.pc = "evals"
    /\ \E v \in Values :
         LET key == sc.keys[Len(sc.keys) - sc.left + 1]
             r == [sc EXCEPT !.left = sc.left - 1,
                             !.pKeys = IF v # Failed THEN Append(sc.pKeys, key)
                                       ELSE sc.pKeys,
                             !.pVals = IF v # Failed THEN Append(sc.pVals, v)
                                       ELSE sc.pVals]
         IN IF r.left = 0
            THEN ResolveScope(r, Tail(queue))
            ELSE /\ sc' = r
                 /\ queue' = Tail(queue)
                 /\ UNCHANGED <<varHandles, ptrHandles, issued>>
    /\ UNCHANGED <<bpVars, initVars, stopVars, mapOp, parked, sideVars, proto,
                   refused, disc, stackFrames, scopes, st, varResp, vr>>

\* The replies to the display-name evaluations of a scopes request. Until
\* the last toString() reply the results are collected; then the names are
\* written and the constructor names awaited. An ERR reply, or the throw of
\* the write, rejects the promise: the catch handler of
\* expandScopeProperties returns the property set and the response is sent.
\* A reply that comes after that is dropped.
ReplyScName ==
    /\ queue # <<>>
    /\ Head(queue).cmd = "eval" /\ Head(queue).owner = "sc"
    /\ sc.pc \notin {"isGlobal", "evals"}
    /\ IF sc.pc = "toStr"
       THEN \E res \in ToStrResults :
              LET r == [sc EXCEPT !.left = sc.left - 1,
                                  !.results = Append(sc.results, res)]
                  d == setDisplayNames(r.objVars, r.results,
                           [varHandles |-> varHandles, ctors |-> 0,
                            threw |-> FALSE], r.stale)
              IN IF res = "ERR"
                 THEN /\ ScRespond(sc)
                      /\ queue' = Tail(queue)
                      /\ UNCHANGED varHandles
                 ELSE IF r.left > 0
                 THEN /\ sc' = r
                      /\ queue' = Tail(queue)
                      /\ UNCHANGED <<varHandles, issued>>
                 ELSE /\ varHandles' = d.varHandles
                      /\ queue' = Tail(queue) \o NameEvals("sc", d.ctors)
                      /\ IF d.threw \/ d.ctors = 0
                         THEN ScRespond(r)
                         ELSE /\ sc' = [r EXCEPT !.pc = "ctor", !.left = d.ctors]
                              /\ UNCHANGED issued
       ELSE IF sc.pc = "ctor"
       THEN \E ok \in BOOLEAN :
              /\ queue' = Tail(queue)
              /\ UNCHANGED varHandles
              /\ IF ~ok \/ sc.left = 1
                 THEN ScRespond(sc)
                 ELSE /\ sc' = [sc EXCEPT !.left = sc.left - 1]
                      /\ UNCHANGED issued
       ELSE /\ queue' = Tail(queue)
            /\ UNCHANGED <<varHandles, sc, issued>>
    /\ UNCHANGED <<bpVars, initVars, stopVars, mapOp, parked, sideVars, proto,
                   refused, disc, stackFrames, scopes, ptrHandles, st, varResp,
                   vr>>

\* The response to a variables request: returnVars sorts the array it is
\* given in place and sends it; the handles of its variables go to the
\* front end with it.
VrRespond(r, names, refs, tbl) ==
    LET properties == [PropertySet(r.kind) EXCEPT !.variables = names]
    IN /\ varResp' = [ref |-> r.ref, when |-> r.when, found |-> TRUE,
                      paused |-> paused, kind |-> r.kind, wire |-> names,
                      variables |-> returnVars(properties)]
       /\ varHandles' = SetVariables(tbl, r, returnVars(properties), refs)
       /\ issued' = issued \cup {[kind |-> "var", handle |-> h,
                                  when |-> IssuedWhen(r)] :
                                     h \in {e.handle : e \in refs}}
       /\ vr' = IdleVr

\* variablesRequest on a handle the front end holds. An unknown handle gets
\* an empty list; a Scope or Artificials property set, and an Object one
\* that has been expanded, its variables; an Object property set that has
\* not gets an empty variables array and its heap object is inspected.
variablesRequest ==
    /\ phase = "attached"
    /\ vr.pc \in {"idle", "dead"}
    /\ NoCommandOf("vr")
    /\ \E e \in {x \in issued : x.kind = "var"} :
         LET properties == get(varHandles, e.handle)
             r == [IdleVr EXCEPT !.ref = e.handle, !.when = e.when,
                                 !.propSet = e.handle, !.kind = properties.kind]
         IN IF properties = NoObj
            THEN /\ varResp' = [NoVarResp EXCEPT !.ref = e.handle, !.when = e.when,
                                                 !.paused = paused]
                 /\ vr' = IdleVr
                 /\ UNCHANGED <<varHandles, issued, queue>>
            ELSE IF properties.kind = "Object" /\ ~properties.resolved
            THEN /\ varHandles' = [varHandles EXCEPT
                                      ![e.handle - START_HANDLE + 1].resolved = TRUE,
                                      ![e.handle - START_HANDLE + 1].inspects =
                                          @ + 1]
                 /\ queue' = Append(queue, Cmd("inspect", "vr"))
                 /\ vr' = [r EXCEPT !.pc = "inspect"]
                 /\ varResp' = NoVarResp
                 /\ UNCHANGED issued
            ELSE /\ VrRespond(r, properties.variables, properties.refs, varHandles)
                 /\ UNCHANGED queue
    /\ UNCHANGED <<bpVars, initVars, stopVars, mapOp, parked, sideVars, proto,
                   refused, disc, stackFrames, scopes, ptrHandles, st, sc>>

\* A second variablesRequest for the Object property set whose expansion is
\* still waiting for a reply of the target: expandPropertySubset finds
\* propSet.variables set (an empty array is truthy) and resolves with the
\* array as it is at that moment, and returnVars sends it at once.
variablesRequestAgain ==
    /\ phase = "attached"
    /\ vr.pc \in {"inspect", "proprange", "toStr", "ctor"}
    /\ vr.kind = "Object"
    /\ varResp2 = NoVarResp2
    /\ LET properties == get(varHandles, vr.ref)
       IN /\ properties.kind = "Object"
          /\ properties.resolved
          /\ varResp2' = [ref |-> vr.ref, variables |-> returnVars(properties)]
    /\ UNCHANGED <<bpVars, initVars, queue, stopVars, mapOp, parked, ev, disp,
                   posOp, proto, refused, disc, handleVars>>

\* A variables request whose promise was rejected: nothing is sent.
VrDead(r) == [IdleVr EXCEPT !.pc = "dead", !.when = r.when, !.stale = r.stale]

\* The artificial properties of a heap object, in wire order.
ArtificialNames == <<"b", "a">>

\* The maxPropDescRange values an inspect-heap-object reply carries.
MaxPropDescRanges == {0, 1}

\* The reply to inspect-heap-object: a property set for the artificial
\* properties is registered in the table of the moment and heads the
\* object's variables; then the object's own properties are asked for, if
\* it has any. After an ERR nothing catches the rejection: no response.
ReplyInspect ==
    /\ queue # <<>>
    /\ Head(queue).cmd = "inspect"
    /\ \/ \E maxOwnProps \in MaxPropDescRanges :
            LET artificials == [PropertySet("Artificials") EXCEPT
                                   !.variables = ArtificialNames,
                                   !.resolved = TRUE, !.stale = vr.stale]
                tbl == Append(varHandles, artificials)
                r == [vr EXCEPT !.names = <<"__artificial">>,
                                !.refs = {Ref(NullPtr, NextHandle(varHandles))}]
            IN IF maxOwnProps < 1
               THEN /\ VrRespond(r, r.names, r.refs, tbl)
                    /\ queue' = Tail(queue)
               ELSE /\ varHandles' = SetVariables(tbl, r, r.names, r.refs)
                    /\ queue' = Append(Tail(queue), Cmd("proprange", "vr"))
                    /\ vr' = [r EXCEPT !.pc = "proprange"]
                    /\ UNCHANGED <<varResp, issued>>
       \/ /\ queue' = Tail(queue)
          /\ vr' = VrDead(vr)
          /\ UNCHANGED <<varHandles, varResp, issued>>
    /\ UNCHANGED <<bpVars, initVars, stopVars, mapOp, parked, sideVars, proto,
                   refused, disc, stackFrames, scopes, ptrHandles, st, sc>>

\* The reply to get-obj-prop-desc-range: the properties with a value are
\* resolved. After an ERR nothing catches the rejection: no response.
ReplyPropRange(PropLists) ==
    /\ queue # <<>>
    /\ Head(queue).cmd = "proprange"
    /\ \/ \E props \in PropLists :
            LET res == resolvePropertySetVariables(props, varHandles,
                                                   ptrHandles, vr.stale)
                r == [vr EXCEPT !.names = vr.names \o res.names,
                                !.refs = vr.refs \cup res.refs]
            IN /\ ptrHandles' = res.ptrHandles
               /\ IF res.objVars = <<>>
                  THEN /\ VrRespond(r, r.names, r.refs, res.varHandles)
                       /\ queue' = Tail(queue)
                  ELSE /\ varHandles' = SetVariables(res.varHandles, r, r.names, r.refs)
                       /\ queue' = Tail(queue) \o NameEvals("vr", Len(res.objVars))
                       /\ vr' = AwaitNames(r, res.objVars)
                       /\ UNCHANGED <<varResp, issued>>
       \/ /\ queue' = Tail(queue)
          /\ vr' = VrDead(vr)
          /\ UNCHANGED <<varHandles, ptrHandles, varResp, issued>>
    /\ UNCHANGED <<bpVars, initVars, stopVars, mapOp, parked, sideVars, proto,
                   refused, disc, stackFrames, scopes, st, sc>>

\* The replies to the display-name evaluations of a variables request: as
\* for a scopes request, but nothing catches a rejection, so that after an
\* ERR reply or the throw of the write no response is sent.
ReplyVrName ==
    /\ queue # <<>>
    /\ Head(queue).cmd = "eval" /\ Head(queue).owner = "vr"
    /\ IF vr.pc = "toStr"
       THEN \E res \in ToStrResults :
              LET r == [vr EXCEPT !.left = vr.left - 1,
                                  !.results = Append(vr.results, res)]
                  d == setDisplayNames(r.objVars, r.results,
                           [varHandles |-> varHandles, ctors |-> 0,
                            threw |-> FALSE], r.stale)
              IN IF res = "ERR"
                 THEN /\ vr' = VrDead(vr)
                      /\ queue' = Tail(queue)
                      /\ UNCHANGED <<varHandles, varResp, issued>>
                 ELSE IF r.left > 0
                 THEN /\ vr' = r
                      /\ queue' = Tail(queue)
                      /\ UNCHANGED <<varHandles, varResp, issued>>
                 ELSE /\ queue' = Tail(queue) \o NameEvals("vr", d.ctors)
                      /\ IF d.threw
                         THEN /\ vr' = VrDead(vr)
                              /\ varHandles' = d.varHandles
                              /\ UNCHANGED <<varResp, issued>>
                         ELSE IF d.ctors = 0
                         THEN VrRespond(r, r.names, r.refs, d.varHandles)
                         ELSE /\ vr' = [r EXCEPT !.pc = "ctor", !.left = d.ctors]
                              /\ varHandles' = d.varHandles
                              /\ UNCHANGED <<varResp, issued>>
       ELSE IF vr.pc = "ctor"
       THEN \E ok \in BOOLEAN :
              /\ queue' = Tail(queue)
              /\ IF ~ok
                 THEN /\ vr' = VrDead(vr)
                      /\ UNCHANGED <<varHandles, varResp, issued>>
                 ELSE IF vr.left = 1
                 THEN VrRespond(vr, vr.names, vr.refs, varHandles)
                 ELSE /\ vr' = [vr EXCEPT !.left = vr.left - 1]
                      /\ UNCHANGED <<varHandles, varResp, issued>>
       ELSE /\ queue' = Tail(queue)
            /\ UNCHANGED <<varHandles, varResp, vr, issued>>
    /\ UNCHANGED <<bpVars, initVars, stopVars, mapOp, parked, sideVars, proto,
                   refused, disc, stackFrames, scopes, ptrHandles, st, sc>>

\* ------------------------------------------------------------- evaluate

\* sendResponse for the evaluate request: one more response.
EvRespond(e, kind, result, ref) ==
    [e EXCEPT !.responses = @ + 1, !.kind = kind, !.result = result,
              !.ref = ref]

\* evaluateRequest. "cmd:" with an unknown command is refused. For
\* "cmd:breakpoints" the list command is sent and the response, with the
\* result still empty, is sent right after the switch. Otherwise the frame
\* is looked up: an unknown handle is answered with requestFailedResponse
\* and, without a return, frame.depth throws, which the session base class
\* answers with an error response of its own.
evaluateRequest(Exprs, FrameIds) ==
    /\ phase = "attached"
    /\ ev.pc = "idle"
    /\ NoCommandOf("ev")
    /\ \E x \in Exprs, frameId \in FrameIds :
         LET e == [IdleEv EXCEPT !.expr = x, !.frameId = frameId]
             frame == get(stackFrames, frameId)
         IN IF x = "cmd:other"
            THEN /\ ev' = EvRespond(e, "error", "", 0)
                 /\ UNCHANGED queue
            ELSE IF x = "cmd:breakpoints"
            THEN /\ queue' = Append(queue, Cmd("list", "ev"))
                 /\ ev' = [EvRespond(e, "result", "", 0) EXCEPT !.pc = "list"]
            ELSE IF frame = NoObj
            THEN /\ ev' = EvRespond(EvRespond(e, "error", "", 0), "error", "", 0)
                 /\ UNCHANGED queue
            ELSE /\ queue' = Append(queue, EvalCmd("ev", frame.depth))
                 /\ ev' = [e EXCEPT !.pc = "eval"]
    /\ UNCHANGED <<bpVars, initVars, stopVars, mapOp, parked, varResp2, disp,
                   posOp, proto, refused, disc, handleVars>>

\* The reply to list-breakpoints of "cmd:breakpoints": the lines are put
\* together and go nowhere; an ERR reply is answered with
\* requestFailedResponse, a second response.
ReplyEvList ==
    /\ queue # <<>>
    /\ Head(queue).cmd = "list" /\ Head(queue).owner = "ev"
    /\ queue' = Tail(queue)
    /\ \E rep \in {"REP", "ERR"} :
         ev' = IF rep = "REP" THEN [ev EXCEPT !.pc = "idle", !.reply = rep]
               ELSE [EvRespond(ev, "error", "", 0) EXCEPT !.pc = "idle",
                                                         !.reply = rep]
    /\ UNCHANGED <<bpVars, initVars, stopVars, mapOp, parked, varResp2, disp,
                   posOp, proto, refused, disc, handleVars>>

\* The handle of frame.scopes[0].properties; reading it throws while the
\* frame has no scopes (none has been asked for) or the scope no property
\* set (its scopes request has not got that far).
ScopeHandleThrows(frame) ==
    \/ frame.scopes = 0
    \/ get(scopes, frame.scopes).properties = 0

\* The replies to the evaluation: a failed evaluation and an ERR reply are
\* answered with requestFailedResponse; a successful one with the result,
\* unless reading the variablesReference throws inside the .then, which
\* the .catch answers with requestFailedResponse. The frame is the table's
\* entry as long as no later pause has replaced the table.
EvReplies == {"success", "failure", "ERR"}

ReplyEvEval ==
    /\ queue # <<>>
    /\ Head(queue).cmd = "eval" /\ Head(queue).owner = "ev"
    /\ queue' = Tail(queue)
    /\ \E rep \in EvReplies :
         LET frame == get(stackFrames, ev.frameId)
             e == [ev EXCEPT !.pc = "idle", !.reply = rep]
         IN ev' = IF rep = "success" /\ ~ScopeHandleThrows(frame)
                  THEN EvRespond(e, "result", "value",
                                 get(scopes, frame.scopes).properties)
                  ELSE EvRespond(e, "error", "", 0)
    /\ UNCHANGED <<bpVars, initVars, stopVars, mapOp, parked, varResp2, disp,
                   posOp, proto, refused, disc, handleVars>>

\* ------------------- the display values of resolvePropertySetVariables

\* Calls of resolvePropertySetVariables in one pause cycle, and object
\* values per call.
MaxResolves == 2
MaxValues == 2

\* Duk.HObjectClassNames[classID] of the built-in object.
ClassName == "Array"

\* The reply to the evaluation of key.toString(), for a key that evaluates
\* to the object.
toStringOf(obj) ==
    CASE obj = "named" -> [success |-> TRUE, result |-> "Name"]
      [] obj = "tagged" -> [success |-> TRUE, result |-> "[object Foo]"]
      [] obj \in {"plain", "plainNoCtor"} ->
             [success |-> TRUE, result |-> "[object Object]"]
      [] OTHER -> [success |-> FALSE, result |-> "TypeError"]

\* The reply to the evaluation of String(key.constructor.name).
constructorNameOf(obj) ==
    IF obj = "plain" THEN [success |-> TRUE, result |-> "Ctor"]
    ELSE [success |-> FALSE, result |-> "TypeError"]

\* rName.indexOf("[object") >= 0, and rName.substring("[object ".length,
\* rName.length-1), for the strings that occur.
HasObjectTag(rName) == rName \in {"[object Object]", "[object Foo]"}
Untagged(rName) ==
    CASE rName = "[object Foo]" -> "Foo"
      [] rName = "[object Object]" -> "Object"
      [] OTHER -> rName

\* The first loop, over the object values: a variable per value; the value
\* of a cached property set that has a displayName is that name; a new
\* property set is registered with the pointer map, a built-in one with its
\* class name; every other variable waits for its toString() evaluation.
RECURSIVE resolveValues(_, _)
resolveValues(values, d) ==
    IF values = <<>> THEN d
    ELSE LET ptr == Head(values)
             objPropSet == d.cache[ptr]
             Variable(v) == [ptr |-> ptr, value |-> v]
         IN IF objPropSet.known /\ objPropSet.displayName # ""
            THEN resolveValues(Tail(values),
                     [d EXCEPT !.shown = Append(@, Variable(objPropSet.displayName))])
            ELSE IF ~objPropSet.known /\ ptr = "builtin"
            THEN resolveValues(Tail(values),
                     [d EXCEPT !.cache[ptr] = [known |-> TRUE,
                                               displayName |-> ClassName],
                               !.shown = Append(@, Variable(ClassName))])
            ELSE resolveValues(Tail(values),
                     [d EXCEPT !.cache[ptr].known = TRUE,
                               !.shown = Append(@, Variable("")),
                               !.objVars = Append(@, Len(d.shown) + 1)])

\* The constructor name goes to the variable that asked for it.
ctorNameSet(d, i, name) == [d EXCEPT !.shown[i].value = name]

\* The loop over the toString() results: rName goes to the displayName of
\* the property set and to the variable; for "[object Object]" the
\* constructor name is asked for.
RECURSIVE setNames(_, _)
setNames(objVars, d) ==
    IF objVars = <<>> THEN d
    ELSE LET i == Head(objVars)
             r == toStringOf(d.shown[i].ptr)
             raw == IF r.success THEN r.result ELSE "Object"
             rName == IF HasObjectTag(raw) /\ raw # "[object Object]"
                      THEN Untagged(raw) ELSE raw
         IN setNames(Tail(objVars),
                [d EXCEPT !.cache[d.shown[i].ptr].displayName = rName,
                          !.shown[i].value = rName,
                          !.ctorVars = IF raw = "[object Object]"
                                       THEN Append(@, i) ELSE @])

\* The loop over the constructor names: a successful one replaces the value
\* of its variable.
RECURSIVE setCtorNames(_, _)
setCtorNames(ctorVars, d) ==
    IF ctorVars = <<>> THEN d
    ELSE LET i == Head(ctorVars)
             r == constructorNameOf(d.shown[i].ptr)
         IN setCtorNames(Tail(ctorVars),
                IF r.success THEN ctorNameSet(d, i, r.result) ELSE d)

\* The lists of object values a call resolves.
ValueLists == UNION {[1..n -> HeapObjects] : n \in 1..MaxValues}

\* resolvePropertySetVariables up to its toString() evaluations.
dispResolve(Values) ==
    /\ disp.pc = "idle"
    /\ disp.calls < MaxResolves
    /\ \E values \in Values :
         LET d == resolveValues(values, [disp EXCEPT !.calls = @ + 1])
         IN disp' = [d EXCEPT !.pc = IF d.objVars = <<>> THEN "idle" ELSE "toStr"]
    /\ UNCHANGED <<bpVars, initVars, queue, stopVars, mapOp, parked, varResp2,
                   ev, posOp, proto, refused, disc, handleVars>>

\* The .then of Promise.all( toStrPromises ).
dispToString ==
    /\ disp.pc = "toStr"
    /\ LET d == setNames(disp.objVars, disp)
       IN disp' = [d EXCEPT !.pc = IF d.ctorVars = <<>> THEN "idle" ELSE "ctor",
                            !.objVars = <<>>]
    /\ UNCHANGED <<bpVars, initVars, queue, stopVars, mapOp, parked, varResp2,
                   ev, posOp, proto, refused, disc, handleVars>>

\* The .then of Promise.all( ctorRequests ).
dispCtorName ==
    /\ disp.pc = "ctor"
    /\ disp' = [setCtorNames(disp.ctorVars, disp) EXCEPT
                   !.pc = "idle", !.ctorVars = <<>>]
    /\ UNCHANGED <<bpVars, initVars, queue, stopVars, mapOp, parked, varResp2,
                   ev, posOp, proto, refused, disc, handleVars>>

NextDisplay ==
    \/ dispResolve(ValueLists)
    \/ dispToString
    \/ dispCtorName

SpecDisplay == Init /\ [][NextDisplay]_vars

\* ------------------------------------------- SourceFile on its own

\* What the source-map service answers for a position: null, a position
\* without a line, or a position in one of the original sources.
ServicePositions ==
    {[null |-> TRUE, source |-> "", line |-> NoLine],
     [null |-> FALSE, source |-> "", line |-> NoLine]}
    \cup [null : {FALSE}, source : {"/src/a.ts", "/src/b.ts"}, line : Lines]

\* The SourceFiles of the generated files, with and without a source map.
SourceFiles ==
    {[name |-> OutDirFiles[i], path |-> join(OutDir, OutDirFiles[i]),
      srcMap |-> m] : i \in 1..Len(OutDirFiles), m \in BOOLEAN}

\* The position in the generated file itself.
Unmapped(src, line) ==
    [path |-> src.path, fileName |-> src.name, line |-> line, threw |-> FALSE]

\* Reading pos.line of a null position throws.
Thrown == [path |-> "", fileName |-> "", line |-> NoLine, threw |-> TRUE]

\* SourceFile.generated2Source, for the answer pos of originalPositionFor.
generated2SourceOf(src, line, pos) ==
    IF ~src.srcMap THEN Unmapped(src, line)
    ELSE IF pos.null THEN Thrown
    ELSE IF pos.line # NoLine
    THEN [path |-> pos.source, fileName |-> basename(pos.source),
          line |-> pos.line, threw |-> FALSE]
    ELSE Unmapped(src, line)

\* SourceFile.source2Generated, for the answer pos of generatedPositionFor.
source2GeneratedOf(src, line, pos) ==
    IF ~src.srcMap THEN Unmapped(src, line)
    ELSE IF pos.null THEN Thrown
    ELSE IF pos.line # NoLine
    THEN [path |-> src.path, fileName |-> src.name, line |-> pos.line,
          threw |-> FALSE]
    ELSE Unmapped(src, line)

\* One call of either function.
translate ==
    /\ \E op \in {"generated2Source", "source2Generated"}, src \in SourceFiles,
          line \in GenLines, pos \in ServicePositions :
         posOp' = [op |-> op, src |-> src, line |-> line, pos |-> pos,
                   out |-> IF op = "generated2Source"
                           THEN generated2SourceOf(src, line, pos)
                           ELSE source2GeneratedOf(src, line, pos)]
    /\ UNCHANGED <<bpVars, initVars, queue, stopVars, mapOp, parked, varResp2,
                   ev, disp, proto, refused, disc, handleVars>>

NextPos == translate

SpecPos == Init /\ [][NextPos]_vars

\* ------------------------------------- the BreakPointMap class on its own

BPKeys == {DukBreakPoint(f, l) : f \in FEPaths, l \in Lines}

\* The sequences of n distinct elements of S.
Distinct(S, n) ==
    {q \in [1..n -> S] : \A i, j \in 1..n : i # j => q[i] # q[j]}

Entries(bs) == {bs[i] : i \in 1..Len(bs)} \ {Null}
KeysIn(bs) == {DukBreakPoint(b.filePath, b.line) : b \in Entries(bs)}

\* addBreakpoints with one or two new entries.
MapAdd ==
    /\ \E n \in 1..2 : \E list \in Distinct(BPKeys \ KeysIn(bps), n) :
         /\ Len(bps) + n <= MaxMapLen
         /\ bps' = addBreakpoints(bps, list).bps
         /\ mapOp' = [op |-> "add", before |-> bps, list |-> list,
                      threw |-> addBreakpoints(bps, list).threw]
    /\ UNCHANGED <<phase, args, sources, sourceToGen, target, queue, init,
                   awaitingInitialStatus, initialStatus, sbp, bpResp, stopVars,
                   refused, proto, parked, sideVars, disc, handleVars>>

\* removeBreakpoints with any non-empty list of entries of the map, in any
\* order.
MapRemove ==
    /\ \E n \in 1..Cardinality(Entries(bps)) :
         \E remList \in Distinct(Entries(bps), n) :
           /\ bps' = removeBreakpoints(bps, remList).bps
           /\ mapOp' = [op |-> "remove", before |-> bps, list |-> remList,
                        threw |-> removeBreakpoints(bps, remList).threw]
    /\ UNCHANGED <<phase, args, sources, sourceToGen, target, queue, init,
                   awaitingInitialStatus, initialStatus, sbp, bpResp, stopVars,
                   refused, proto, parked, sideVars, disc, handleVars>>

\* ---------------------------------------------------------- specifications

\* Attach arguments with and without source maps.
BpArgs == [sourceMaps : BOOLEAN, stopOnEntry : {FALSE}]

AttachSteps(Args) ==
    \/ attachRequest(Args)
    \/ finalizeInit
    \/ attachFailed
    \/ ReplyList
    \/ ReplyInitDelete
    \/ ReplyFireAndForget

\* The session with its breakpoints: any set of lines of /src/a.ts, the first
\* line of the same file named a.ts, and a file nothing maps to.
BpRequests ==
    [path : {"/src/a.ts"}, lines : SUBSET Lines]
        \cup [path : {"a.ts"}, lines : {{}, {1}}]
        \cup [path : {"/src/zz.ts"}, lines : {{1}}]

Next ==
    \/ AttachSteps(BpArgs)
    \/ setBreakPointsRequest(BpRequests)
    \/ ReplyDelete
    \/ ReplyAdd

Spec == Init /\ [][Next]_vars

\* The session with its stop reasons: breakpoints on the first line of a
\* file named by its full path and by its bare name, statuses on the header
\* line and the first source line of a.js, every run-control request.
StopArgs == [sourceMaps : BOOLEAN, stopOnEntry : BOOLEAN]

\* The arguments of the sessions whose handle tables are followed.
HandleArgs == {[sourceMaps |-> TRUE, stopOnEntry |-> TRUE]}

StopRequests == [path : {"/src/a.ts", "a.ts"}, lines : {{}, {1}}]

StopStatuses == {s \in Statuses : s.filename = "a.js" /\ s.linenumber <= 2}

NextStop ==
    \/ AttachSteps(StopArgs)
    \/ setBreakPointsRequest(StopRequests)
    \/ ReplyDelete
    \/ ReplyAdd
    \/ nfy_status(StopStatuses)
    \/ nfy_throw
    \/ paused /\ stepRequest
    \/ ~paused /\ pauseRequest
    \/ paused /\ continueRequest

SpecStop == Init /\ [][NextStop]_vars

\* The session with its handle tables; the locals hold primitive values.
PrimitiveValues == {Failed, Primitive}

HandleStatuses == {s \in Statuses : s.filename = "a.js" /\ s.linenumber = 1}

NextHandles ==
    \/ AttachSteps(HandleArgs)
    \/ nfy_status(HandleStatuses)
    \/ paused /\ continueRequest
    \/ stackTraceRequest(MaxFrames, MaxHandles)
    \/ ReplyCallStack(MaxFrames)
    \/ ReplyStEval
    \/ scopesRequest
    \/ ReplyLocals
    \/ ReplyScIsGlobal
    \/ ReplyScEval(PrimitiveValues)
    \/ variablesRequest

SpecHandles == Init /\ [][NextHandles]_vars

\* The attach sequence on its own, over targets holding up to MaxAttachStale
\* stale breakpoints, with status notifications arriving at any moment.
MaxAttachStale == 2

NextAttach ==
    \/ AttachSteps(StopArgs)
    \/ nfy_status(HandleStatuses)

SpecAttach == InitState(TablesUpTo(MaxAttachStale)) /\ [][NextAttach]_vars

\* The attach sequence against a target that may reject the commands of the
\* clearing. Every command the target holds is answered, and the front end
\* and the target send what they have to send.
NextClearing ==
    \/ AttachSteps(StopArgs)
    \/ nfy_status(HandleStatuses)
    \/ RejectList
    \/ RejectInitDelete

SpecClearing ==
    /\ InitState(TablesUpTo(MaxAttachStale))
    /\ [][NextClearing]_vars
    /\ WF_vars(finalizeInit)
    /\ WF_vars(ReplyList \/ RejectList)
    /\ WF_vars(ReplyInitDelete \/ RejectInitDelete)
    /\ WF_vars(ReplyFireAndForget)

\* The stackTrace request on its own, over call stacks of up to MaxStack
\* entries, with pauses and resumes arriving at any moment.
MaxStack == 2

NextStack ==
    \/ AttachSteps(HandleArgs)
    \/ nfy_status(HandleStatuses)
    \/ stackTraceRequest(MaxStack, MaxStack)
    \/ ReplyCallStack(MaxStack)
    \/ ReplyStEval

SpecStack == Init /\ [][NextStack]_vars

\* The session with its handle tables when values are objects: a plain
\* object, reached from a local and from itself, and an array.
PlainObject == [kind |-> "object", ptr |-> TValPointer(4, 1, 0)]
BuiltinObject == [kind |-> "builtin", ptr |-> TValPointer(8, 1, 0)]

ObjectValues == {PlainObject}

ObjectProps == {<<Prop("o", PlainObject)>>, <<Prop("a", BuiltinObject)>>}

\* The front end waits for the end of a request before it sends the next.
FrontEndIdle ==
    /\ st.pc = "idle"
    /\ sc.pc \in {"idle", "dead"}
    /\ vr.pc \in {"idle", "dead"}
    /\ queue = <<>>

PausedStatuses == {s \in HandleStatuses : s.state = "paused"}

NextVars ==
    \/ AttachSteps(HandleArgs)
    \/ nfy_status(PausedStatuses)
    \/ FrontEndIdle /\ stackTraceRequest(MaxFrames, MaxHandles)
    \/ ReplyCallStack(MaxFrames)
    \/ ReplyStEval
    \/ FrontEndIdle /\ scopesRequest
    \/ ReplyLocals
    \/ ReplyScIsGlobal
    \/ ReplyScEval(ObjectValues)
    \/ ReplyScName
    \/ FrontEndIdle /\ variablesRequest
    \/ ReplyInspect
    \/ ReplyPropRange(ObjectProps)
    \/ ReplyVrName

SpecVars == Init /\ [][NextVars]_vars

\* The variables requests on Object property sets whose properties have
\* primitive values under the names "", "a", "b", "2" and "10", at most
\* MaxSortLen of them, in every wire order; the target pauses once.
MaxSortLen == 2

SortNames == {"", "a", "b", "2", "10"}

SortProps ==
    {[i \in 1..Len(ns) |-> Prop(ns[i], Primitive)] :
        ns \in {f \in UNION {[1..n -> SortNames] : n \in 1..MaxSortLen} :
                   \A i, j \in DOMAIN f : i # j => f[i] # f[j]}}

NextSort ==
    \/ AttachSteps(HandleArgs)
    \/ ~paused /\ nfy_status(PausedStatuses)
    \/ FrontEndIdle /\ stackTraceRequest(MaxFrames, MaxHandles)
    \/ ReplyCallStack(MaxFrames)
    \/ ReplyStEval
    \/ FrontEndIdle /\ scopesRequest
    \/ ReplyLocals
    \/ ReplyScIsGlobal
    \/ ReplyScEval(ObjectValues)
    \/ ReplyScName
    \/ FrontEndIdle /\ variablesRequest
    \/ ReplyInspect
    \/ ReplyPropRange(SortProps \cup ObjectProps)
    \/ ReplyVrName

SpecSort == Init /\ [][NextSort]_vars

\* The disconnect of a session with breakpoints on the first lines of
\* /src/a.ts: the front end sends nothing after its disconnect request, and
\* the target may answer, reject or leave unanswered each command.
DiscRequests == [path : {"/src/a.ts"}, lines : {{1}, Lines}]

NextDisc ==
    \/ AttachSteps(HandleArgs)
    \/ disc.pc = "none" /\ setBreakPointsRequest(DiscRequests)
    \/ ReplyDelete
    \/ ReplyAdd
    \/ DisconnectSteps

SpecDisc == Init /\ [][NextDisc]_vars

\* The same, with a timer that fires once it is armed: the event loop runs
\* the callback of setTimeout at the latest when nothing else is left to run.
SpecDiscLive == Init /\ [][NextDisc]_vars /\ WF_vars(disconnectTimeout)

\* A paused session with registered stack frames whose transport goes away
\* or whose front end disconnects.
NextGone ==
    \/ AttachSteps(HandleArgs)
    \/ ~paused /\ nfy_status(PausedStatuses)
    \/ FrontEndIdle /\ disc.pc = "none" /\ stackTraceRequest(MaxFrames, MaxHandles)
    \/ ReplyCallStack(MaxFrames)
    \/ ReplyStEval
    \/ FrontEndIdle /\ disc.pc = "none" /\ setBreakPointsRequest(DiscRequests)
    \/ ReplyDelete
    \/ ReplyAdd
    \/ FrontEndIdle /\ disconnectRequest
    \/ disconnectTimeout
    \/ ReplyDiscList
    \/ ReplyDiscDelete
    \/ ReplyDetach
    \/ onDisconnected

SpecGone == Init /\ [][NextGone]_vars

\* The engine on its own: commands sent without waiting, frames received,
\* the socket failing and closing.
NextProto ==
    \/ AttachSteps(HandleArgs)
    \/ send
    \/ onReply
    \/ socketEvent

SpecProto == Init /\ [][NextProto]_vars

\* The codec on its own.
NextCodec ==
    \/ AttachSteps(HandleArgs)
    \/ codec

SpecCodec == Init /\ [][NextCodec]_vars

\* The framer on its own.
NextFrame ==
    \/ AttachSteps(HandleArgs)
    \/ targetWrites
    \/ onData

SpecFrame == Init /\ [][NextFrame]_vars

\* Two files with breakpoints on their first lines, requests that delete at
\* most one breakpoint each, and a second request that may arrive while the
\* first awaits a reply; after it no further request is sent.
OverlapRequests ==
    [path : {"/src/a.ts"}, lines : {{1}, {2}, {1, 2}}]
        \cup [path : {"/src/b.ts"}, lines : {{}, {1}}]

NextOverlap ==
    \/ AttachSteps(HandleArgs)
    \/ (parked.r = IdleSbp \/ sbp.pc = "idle")
          /\ setBreakPointsRequest(OverlapRequests)
    \/ ReplyDelete
    \/ ReplyAdd
    \/ switchRequest

SpecOverlap == Init /\ [][NextOverlap]_vars

\* setBreakpoints requests for one file whose list may name a line twice,
\* two of them in flight together at most.
MaxListed == 2

ListedRequests ==
    [path : {"/src/a.ts"},
     lines : UNION {[1..n -> Lines] : n \in 0..MaxListed}]

NextListed ==
    \/ AttachSteps(HandleArgs)
    \/ (parked.r = IdleSbp \/ sbp.pc = "idle")
          /\ setBreakPointsRequestOf(ListedRequests)
    \/ ReplyDelete
    \/ ReplyAdd
    \/ switchRequest

SpecListed == Init /\ [][NextListed]_vars

\* setBreakpoints requests made while the clearing of finalizeInit is in
\* flight, against targets holding up to MaxAttachStale stale breakpoints.
EarlyRequests == [path : {"/src/a.ts"}, lines : SUBSET Lines]

NextEarly ==
    \/ AttachSteps(StopArgs)
    \/ init.pc \in {"list", "dels"} /\ setBreakPointsRequest(EarlyRequests)
    \/ ReplyDelete
    \/ ReplyAdd

SpecEarly == InitState(TablesUpTo(MaxAttachStale)) /\ [][NextEarly]_vars

\* Objects met more than once: a local and 'this' that are the same object,
\* an object with two properties that refer to itself, to an object whose
\* pointer is eight bytes wide with the same parts, or to one array; the
\* target pauses once.
WideObject == [kind |-> "object", ptr |-> TValPointer(8, 1, 0)]

SharedProps ==
    {<<Prop("o", PlainObject), Prop("x", PlainObject)>>,
     <<Prop("o", WideObject), Prop("x", PlainObject)>>,
     <<Prop("a", BuiltinObject), Prop("b", BuiltinObject)>>}

NextPtr ==
    \/ AttachSteps(HandleArgs)
    \/ ~paused /\ nfy_status(PausedStatuses)
    \/ FrontEndIdle /\ stackTraceRequest(MaxFrames, MaxHandles)
    \/ ReplyCallStack(MaxFrames)
    \/ ReplyStEval
    \/ FrontEndIdle /\ scopesRequest
    \/ ReplyLocals
    \/ ReplyScIsGlobal
    \/ ReplyScEval(ObjectValues)
    \/ ReplyScName
    \/ FrontEndIdle /\ variablesRequest
    \/ ReplyInspect
    \/ ReplyPropRange(SharedProps)
    \/ ReplyVrName

SpecPtr == Init /\ [][NextPtr]_vars

\* Two variables requests for one Object property set, the second made
\* before the replies to the heap inspection of the first have arrived.
NextAgain ==
    \/ AttachSteps(HandleArgs)
    \/ ~paused /\ nfy_status(PausedStatuses)
    \/ FrontEndIdle /\ stackTraceRequest(MaxFrames, MaxHandles)
    \/ ReplyCallStack(MaxFrames)
    \/ ReplyStEval
    \/ FrontEndIdle /\ scopesRequest
    \/ ReplyLocals
    \/ ReplyScIsGlobal
    \/ ReplyScEval(ObjectValues)
    \/ ReplyScName
    \/ FrontEndIdle /\ variablesRequest
    \/ variablesRequestAgain
    \/ ReplyInspect
    \/ ReplyPropRange(SharedProps)
    \/ ReplyVrName

SpecAgain == Init /\ [][NextAgain]_vars

\* Evaluate requests in a paused session, with and without a scopes request
\* before them: expressions and the two kinds of "cmd:", for a frame handle
\* of the pause and for a handle no frame has.
EvalExprs == {"x", "cmd:breakpoints", "cmd:other"}

NextEval ==
    \/ AttachSteps(HandleArgs)
    \/ ~paused /\ nfy_status(PausedStatuses)
    \/ FrontEndIdle /\ ev.pc = "idle" /\ stackTraceRequest(MaxFrames, MaxHandles)
    \/ ReplyCallStack(MaxFrames)
    \/ ReplyStEval
    \/ FrontEndIdle /\ scopesRequest
    \/ ReplyLocals
    \/ ReplyScIsGlobal
    \/ ReplyScEval(PrimitiveValues)
    \/ evaluateRequest(EvalExprs, IssuedHandles("frame") \cup {0})
    \/ ReplyEvList
    \/ ReplyEvEval

SpecEval == Init /\ [][NextEval]_vars

\* The session with requests its state does not allow: every run-control
\* request whether paused or not, breakpoints for /src/a.ts and for a file
\* nothing maps to, with a call stack in the handle tables. The front end
\* asks for breakpoints and for the call stack while no command is waiting.
RefuseRequests ==
    [path : {"/src/a.ts", "/src/zz.ts"}, lines : {{1}}]

NextRefuse ==
    \/ AttachSteps(HandleArgs)
    \/ nfy_status(HandleStatuses)
    \/ ~paused /\ stepRequest
    \/ pauseRequest
    \/ ~paused /\ continueRequest
    \/ FrontEndIdle /\ setBreakPointsRequest(RefuseRequests)
    \/ ReplyAdd
    \/ FrontEndIdle /\ stackTraceRequest(MaxFrames, MaxHandles)
    \/ ReplyCallStack(MaxFrames)
    \/ ReplyStEval

SpecRefuse == Init /\ [][NextRefuse]_vars

\* The BreakPointMap class, called directly.
NextMap == MapAdd \/ MapRemove

SpecMap == Init /\ [][NextMap]_vars

\* ------------------------------------------------------------------ claims

\* No command of a setBreakpoints request is waiting for its reply.
NoSbpCommand == \A i \in 1..Len(queue) : queue[i].owner # "sbp"

\* The session is initialised and no setBreakpoints request is in flight: the
\* latest one has been answered or has ended, every command acknowledged.
Quiescent ==
    /\ phase = "attached"
    /\ init.pc = "done"
    /\ sbp.pc \in {"idle", "done", "dead"}
    /\ queue = <<>>

\* The map holds an entry for the file path and line.
HasEntryAt(bs, path, line) ==
    \E i \in 1..Len(bs) :
        bs[i] # Null /\ bs[i].filePath = path /\ bs[i].line = line

\* The file-and-line keys of a list of entries, in order.
KeySeq(bs) == [i \in 1..Len(bs) |-> OriginOf(bs[i])]

\* C1: whenever no setBreakpoints request is in flight, the BreakPointMap and
\* the target's breakpoint table have the same length, and the i-th entry of
\* the map holds dukIdx = i and is the breakpoint the target holds at index i.
C1_MapMirrorsTarget ==
    Quiescent =>
        /\ Len(bps) = Len(target)
        /\ \A i \in 1..Len(bps) :
              /\ bps[i] # Null
              /\ bps[i].dukIdx = i - 1
              /\ i <= Len(target) => target[i].origin = OriginOf(bps[i])

\* C2: after every addBreakpoints or removeBreakpoints call, every entry's
\* dukIdx equals its position in _breakpoints and no slot is null.
C2_IndexIsPosition ==
    mapOp.op # "none" =>
        /\ ~HasNull(bps)
        /\ \A i \in 1..Len(bps) : bps[i].dukIdx = i - 1

\* C3: removeBreakpoints(remList), for a remList of entries of the map in any
\* order, completes without error and leaves exactly the entries that are not
\* in remList, in their previous relative order.
C3_RemoveAnyOrder ==
    (mapOp.op = "remove" /\ ~HasNull(mapOp.before)) =>
        /\ ~mapOp.threw
        /\ ~HasNull(bps)
        /\ KeySeq(bps) =
              SelectSeq(KeySeq(mapOp.before),
                        LAMBDA k : \A j \in 1..Len(mapOp.list) :
                                       OriginOf(mapOp.list[j]) # k)

\* C4: a setBreakpoints request for file X sends no delete command for an
\* entry of X whose line is still requested and no add command for a line the
\* map holds for X, and every breakpoint of another file stays in the
\* target's table and in the map while the request is served.
C4_OtherFilesUntouched ==
    [][(phase = "attached" /\ init.pc = "done" /\ sbp'.pc \in {"rem", "add", "done", "dead"}
            /\ (sbp' # sbp \/ target' # target \/ bps' # bps))
       =>
        /\ \A i \in 1..Len(sbp'.remBPs) : sbp'.remBPs[i].line \notin sbp'.lines
        /\ \A i \in 1..Len(sbp'.addBPs) :
              sbp.pc \in {"idle", "done", "dead"}
                  => ~HasEntryAt(bps, sbp'.filePath, sbp'.addBPs[i].line)
        /\ \A i \in 1..Len(target) :
              target[i].origin.filePath \notin {sbp'.filePath, Stale.filePath}
                  => \E j \in 1..Len(target') : target'[j] = target[i]
        /\ \A i \in 1..Len(bps) :
              (bps[i] # Null /\ bps[i].filePath # sbp'.filePath)
                  => HasEntryAt(bps', bps[i].filePath, bps[i].line)]_vars

\* C5: for a setBreakpoints request on a known source file, with or without
\* a source map, every requested line the map does not hold for the file
\* causes one add-breakpoint command and, the target accepting it, is in the
\* map after the request and verified in the response.
C5_NewLinesAreSet ==
    (sbp.pc = "done" /\ ~sbp.err) =>
        \A i \in 1..Len(sbp.addBPs) :
            /\ \E j \in 1..Len(sbp.successBPs) : sbp.successBPs[j] = sbp.addBPs[i]
            /\ HasEntryAt(bps, sbp.filePath, sbp.addBPs[i].line)
            /\ \E j \in 1..Len(bpResp.lines) : bpResp.lines[j] = sbp.addBPs[i].line

\* C6: when the target answers ERR to one add-breakpoint or delete-breakpoint
\* command of a setBreakpoints request, the request still runs to its end:
\* its response is sent and the map holds the breakpoints that succeeded.
C6_ErrSkipsOneBreakpoint ==
    (sbp.err /\ NoSbpCommand) =>
        /\ sbp.pc = "done"
        /\ bpResp.kind = "ok"
        /\ \A i \in 1..Len(sbp.successBPs) :
              HasEntryAt(bps, sbp.filePath, sbp.successBPs[i].line)

\* C7: a paused status acted upon at a source file and line the map holds an
\* entry for sends a StoppedEvent with reason "breakpoint".
C7_BreakpointReason ==
    [][(lastStop'.seq # lastStop.seq
            /\ HasEntryAt(bps, lastStop'.path, lastStop'.line))
       => lastStop'.reason = "breakpoint"]_vars

\* The position of the latest StoppedEvent matches no entry of the map,
\* neither by its source path nor by its file name.
NoEntryAtStop(bs, stop) ==
    /\ ~HasEntryAt(bs, stop.path, stop.line)
    /\ ~HasEntryAt(bs, stop.fileName, stop.line)

\* C8: a paused status at a position that matches no map entry sends a
\* StoppedEvent whose reason is the one of the latest accepted next, stepIn,
\* stepOut or pause request or throw notification since the previous
\* StoppedEvent, "debugger" if there was none; after every StoppedEvent the
\* pending reason is "debugger".
C8_PendingReason ==
    [][lastStop'.seq # lastStop.seq
       => /\ expectingBreak' = "debugger"
          /\ NoEntryAtStop(bps, lastStop')
                => lastStop'.reason =
                       (IF lastAccepted = "none" THEN "debugger" ELSE lastAccepted)]_vars

\* A StoppedEvent with the reason of a step request, off every breakpoint.
C8_Witness ==
    /\ lastStop.seq = 1
    /\ lastStop.reason = "stepin"
    /\ NoEntryAtStop(bps, lastStop)
    /\ expectingBreak = "debugger"

\* C9: after a running status that follows a pause, and until the next
\* pause, a variables request with a handle issued during that pause returns
\* none of the pause's data.
C9_HandlesUnknownWhileRunning ==
    (varResp.ref # 0 /\ varResp.when = "paused" /\ ~varResp.paused)
        => varResp.variables = <<>>

\* C10: a handle issued during one pause never resolves during a later one:
\* after the next paused status a variables request with it gets no object,
\* and so no variables, of the new pause.
C10_HandlesNotReused ==
    (varResp.ref # 0 /\ varResp.when = "old")
        => (~varResp.found /\ varResp.variables = <<>>)

\* C12: the first status received after the initial pause or resume request
\* was issued moves the session out of initialising: when it reports paused,
\* the paused flag becomes true and a StoppedEvent is sent with it.
C12_FirstStatusActedUpon ==
    [][(awaitingInitialStatus /\ ~awaitingInitialStatus'
            /\ initialStatus'.state = "paused")
       => (paused' /\ lastStop'.seq # lastStop.seq)]_vars

\* C13: while the attach-time clearing of stale breakpoints has not yet
\* issued the initial pause or resume request, no step of the session (a
\* status notification among them) sends a StoppedEvent or a ContinuedEvent
\* or changes the paused flag or a handle table.
C13_EarlyStatusIgnored ==
    [][(phase = "attached" /\ ~awaitingInitialStatus /\ initialStatus = NoStatus)
       => /\ paused' = paused
          /\ lastStop' = lastStop
          /\ continued' = continued
          /\ stackFrames' = stackFrames
          /\ scopes' = scopes
          /\ varHandles' = varHandles]_vars

\* A status has been dropped while the delete commands of the clearing were
\* still unanswered, and nothing has been sent or changed for it.
C13_Witness ==
    /\ dropped
    /\ init.pc = "dels"
    /\ ~paused
    /\ lastStop = NoStop
    /\ ~continued

\* C14: the initial pause or resume request is on its way only when the
\* list-breakpoints reply has arrived and every delete command of the
\* clearing has been acknowledged; there is one such request, pause if and
\* only if stopOnEntry is set.
C14_InitialRunStateLast ==
    /\ NumFireAndForget <= 1
    /\ \A i \in 1..Len(queue) :
          FireAndForget(queue[i]) =>
              /\ init.pc = "done"
              /\ \A j \in 1..Len(queue) : queue[j].owner # "init"
              /\ \A j \in 1..Len(target) : target[j].origin # Stale
              /\ queue[i].cmd = (IF args.stopOnEntry THEN "pause" ELSE "resume")
              /\ (queue[i].cmd = "pause") = args.stopOnEntry

\* The pause request of a stopOnEntry session is the only command in flight,
\* the clearing is over and the target's table is empty.
C14_Witness ==
    /\ args.stopOnEntry
    /\ init.pc = "done"
    /\ queue = <<Cmd("pause", "none")>>
    /\ target = <<>>
    /\ awaitingInitialStatus

\* C18: a scopes request for a frame handle of the current pause is always
\* answered: it never ends without a response, also when get-locals or the
\* evaluation of 'this' fails.
C18_ScopesAnswered == sc.pc # "dead"

\* The evaluations of a stackTrace request that are waiting for their reply.
StEvals(q) == {i \in 1..Len(q) : q[i].owner = "st" /\ q[i].cmd = "eval"}

C11_NoStaleRegistration ==
    /\ \A i \in 1..Len(varHandles) : ~varHandles[i].stale
    /\ \A e \in ptrHandles : ~e.stale

\* C19: a variables request on an Object property-set handle of the current
\* pause is always answered: it never ends without a response, also when
\* inspect-heap-object, get-obj-prop-desc-range or a display-name
\* evaluation fails.
C19_VariablesAnswered ==
    ~(vr.pc = "dead" /\ vr.when = "paused" /\ ~vr.stale)

\* A name is numeric when it is a numeral: a non-empty string of decimal
\* digits.
IsNumeral(name) ==
    /\ CodeUnits(name) # <<>>
    /\ \A i \in 1..Len(CodeUnits(name)) : CodeUnits(name)[i] \in 48..57

Occurrences(name, vs) == Cardinality({i \in 1..Len(vs) : vs[i] = name})

\* C20: the variables of a response are those of the wire; for a Scope or
\* Object property set the names that are not numeric come first, in
\* ascending lexicographic order, then the numeric names in ascending
\* numeric order; for an Artificials property set the wire order is kept.
C20_VariablesSorted ==
    varResp.found =>
        LET out == varResp.variables
            wire == varResp.wire
        IN /\ Len(out) = Len(wire)
           /\ \A i \in 1..Len(wire) :
                 Occurrences(wire[i], out) = Occurrences(wire[i], wire)
           /\ IF varResp.kind = "Artificials" THEN out = wire
              ELSE \A i, j \in 1..Len(out) :
                     i < j =>
                       /\ ~(IsNumeral(out[i]) /\ ~IsNumeral(out[j]))
                       /\ (~IsNumeral(out[i]) /\ ~IsNumeral(out[j]))
                             => ~StrLess(out[j], out[i])
                       /\ (IsNumeral(out[i]) /\ IsNumeral(out[j]))
                             => Decimal(CodeUnits(out[i]), 0)
                                  <= Decimal(CodeUnits(out[j]), 0)

DetachCmds(q) == Cardinality({i \in 1..Len(q) : q[i].cmd = "detach"})

\* C15: for a disconnect request the socket is closed and the response sent
\* at most once, and exactly once as soon as the detach command has been
\* answered or the timer has fired; after the timer has closed the socket
\* the request sends no detach command.
C15_DisconnectOnce ==
    [][/\ disc'.closed <= 1
       /\ disc'.responses <= 1
       /\ (disc'.pc = "done" \/ disc'.timer = "fired")
             => (disc'.closed = 1 /\ disc'.responses = 1)
       /\ disc.by = "timeout" => DetachCmds(queue') <= DetachCmds(queue)]_vars

\* Both paths have run: the breakpoints were cleared and the detach command
\* answered, which closed the socket, and the timer fired afterwards.
C15_Witness ==
    /\ disc.pc = "done"
    /\ disc.by = "detach"
    /\ disc.timer = "fired"
    /\ disc.closed = 1 /\ disc.responses = 1

\* C16: every disconnect request is eventually answered and the socket
\* eventually closed, whatever the target does with the list-breakpoints,
\* delete-breakpoint and detach commands.
C16_DisconnectAnswered ==
    (disc.pc # "none") ~> (disc.closed >= 1 /\ disc.responses >= 1)

\* A command of the disconnect request was rejected, or is still
\* unanswered, and the timer closed the socket and had the response sent.
C16_Witness ==
    /\ disc.pc \in {"list", "dels", "detach", "rejected"}
    /\ disc.by = "timeout"
    /\ disc.closed = 1 /\ disc.responses = 1

\* The variables of the property sets of the current tables that refer to
\* an object.
Carried ==
    {e \in UNION {varHandles[i].refs : i \in 1..Len(varHandles)} :
        e.ptr # NullPtr}

\* C21: in the tables of one pause, two variables whose values are objects
\* with the same heap pointer carry the same variablesReference, and at
\* most one inspect-heap-object command has been sent for an object.
C21_OneReferencePerObject ==
    /\ \A a, b \in Carried : a.ptr = b.ptr => a.handle = b.handle
    /\ \A i, j \in 1..Len(varHandles) :
          /\ varHandles[i].inspects <= 1
          /\ (/\ i # j
              /\ varHandles[i].heapPtr = varHandles[j].heapPtr
              /\ varHandles[i].inspects > 0)
                => varHandles[j].inspects = 0

\* An object has been inspected, and three variables of two property sets,
\* resolved in different calls, refer to it.
C21_Witness ==
    \E i, j \in 1..Len(varHandles) :
        /\ i # j
        /\ varHandles[j].inspects = 1
        /\ Ref(varHandles[j].heapPtr, START_HANDLE + j - 1) \in varHandles[i].refs
        /\ Ref(varHandles[j].heapPtr, START_HANDLE + j - 1) \in varHandles[j].refs
        /\ Cardinality({k \in 1..Len(varHandles[j].variables) :
                           varHandles[j].variables[k] \in {"o", "x"}}) = 2
        /\ Cardinality(Carried) = 1

\* A run-control request has just been made in a state that does not allow
\* it.
RunControlRefused ==
    /\ phase = "attached"
    /\ refused'.seq # refused.seq
    /\ IF refused'.req = "pause" THEN paused ELSE ~paused

\* A setBreakpoints request has just been made for a file that cannot be
\* resolved.
UnknownFileRequested ==
    /\ phase = "attached"
    /\ <<sbp, bpResp>>' # <<sbp, bpResp>>
    /\ sbp'.pc = "idle" /\ sbp'.src = NoSrc /\ sbp'.filePath # ""
    /\ unmapSourceFile(sbp'.filePath, sources, sourceToGen, args).src = NoSrc

\* The commands of the given kinds that wait for their reply.
Waiting(q, cmds) == Cardinality({i \in 1..Len(q) : q[i].cmd \in cmds})

C23_DisconnectInvalidates ==
    (disc.terminated >= 1 \/ disc.responses >= 1)
        => /\ ~paused
           /\ stackFrames = <<>>
           /\ scopes = <<>>
           /\ varHandles = <<>>

\* C24: commands are written to the socket in the order of the calls; the
\* k-th reply or error frame settles the k-th command; a command is settled
\* at most once, and is in the queue of pending requests, once, exactly
\* until it is settled.
C24_RepliesInSendOrder ==
    /\ proto.wire = [i \in 1..proto.calls |-> i]
    /\ \A id \in 1..proto.calls :
         LET o == proto.outcome[id]
             places == {j \in 1..Len(proto.pending) : proto.pending[j] = id}
         IN /\ o.settles <= 1
            /\ o.state \in {"resolved", "rejected"} => o.by = id
            /\ o.state = "pending" <=> Cardinality(places) = 1
            /\ o.state # "pending" => (o.settles = 1 /\ places = {})

\* Two commands are in flight after the first of three was rejected.
C24_Witness ==
    /\ proto.calls = 3
    /\ proto.replies = 1
    /\ proto.pending = <<2, 3>>
    /\ proto.outcome[1] = Settle(Unsettled, "rejected", 1)

\* C25: a reply or error frame that arrives while no request is pending
\* settles no request and makes the engine fail for good: from then on no
\* request is settled by a frame.
C25_DesyncIsFatal ==
    [][/\ (proto'.replies > proto.replies /\ proto.pending = <<>>)
            => (proto'.fatal /\ proto'.outcome = proto.outcome)
       /\ proto.fatal
            => /\ proto'.fatal
               /\ proto'.replies = proto.replies
               /\ proto'.outcome = proto.outcome]_vars

\* The target has answered two commands and sent a third frame.
C25_Witness ==
    /\ proto.fatal
    /\ proto.calls = 2
    /\ proto.replies = 3
    /\ proto.pending = <<>>

\* C26: once the socket has failed or closed, no request is pending, every
\* request that was pending has been rejected with a transport error, and
\* the session has sent one TerminatedEvent, however many socket events
\* there were; before that it has sent none.
C26_TransportLoss ==
    /\ disc.terminated <= 1
    /\ proto.link = "up" => disc.terminated = 0
    /\ proto.link = "down"
         => /\ proto.pending = <<>>
            /\ \A id \in 1..proto.calls :
                 /\ proto.outcome[id].state # "pending"
                 /\ proto.outcome[id].settles = 1
            /\ proto.notices = 1
            /\ disc.terminated = 1

\* The socket failed and closed with two of three commands unanswered.
C26_Witness ==
    /\ proto.events = 2
    /\ proto.calls = 3
    /\ proto.outcome[1].state = "resolved"
    /\ proto.outcome[2].state = "transport"
    /\ proto.outcome[3].state = "transport"
    /\ disc.terminated = 1

RECURSIVE BytesOf(_)
BytesOf(ms) ==
    IF ms = <<>> THEN <<>> ELSE EncodeMessage(Head(ms)) \o BytesOf(Tail(ms))

\* C27: however the bytes were cut into chunks, the framer stands where it
\* would stand had they come in one chunk; the messages dispatched are the
\* first messages the target wrote, value for value, one for each message
\* whose EOM has been delivered and none for any other.
C27_ChunkingInvisible ==
    LET whole == Drain([buf |-> proto.fed, cur |-> <<>>, msgs |-> <<>>])
        ended == {k \in 1..Len(proto.written) :
                     Len(BytesOf(SubSeq(proto.written, 1, k))) <= Len(proto.fed)}
    IN /\ [buf |-> proto.buf, cur |-> proto.cur, msgs |-> proto.msgs] = whole
       /\ Len(proto.msgs) = Cardinality(ended)
       /\ proto.msgs = SubSeq(proto.written, 1, Len(proto.msgs))

\* The second message was cut inside its string, whose first byte is the
\* byte of EOM: one message is dispatched, the integer of the second is
\* decoded, the string waits in the buffer.
C27_Witness ==
    /\ Len(proto.written) = 2
    /\ proto.written[2][1] = Marker("err")
    /\ Len(proto.msgs) = 1
    /\ Len(proto.cur) = 2
    /\ proto.buf = <<STRV_MIN + 2, 0>>

\* The commands of the setBreakpoints request that wait for their reply.
SbpWaiting(q) == {i \in 1..Len(q) : q[i].owner = "sbp"}

\* This step sends a command of the setBreakpoints request.
SbpSends ==
    /\ sbp'.pc \in {"rem", "add"}
    /\ <<sbp'.pc, sbp'.i>> # <<sbp.pc, sbp.i>>

\* This step sends the response of the setBreakpoints request.
SbpResponds ==
    /\ sbp'.pc = "done"
    /\ bpResp'.kind = "ok"
    /\ <<sbp, bpResp>>' # <<sbp, bpResp>>

\* C29: at most one command of a setBreakpoints request waits for its reply;
\* a command that is not the first of its request is sent by the step that
\* receives the reply to the one before; the first add is sent by the step
\* that receives the reply to the last delete, unless nothing is deleted;
\* the response is sent by the step that receives the reply to the last
\* command, leaves no command waiting and updates the map with the removed
\* and the added breakpoints.
C29_OneCommandAtATime ==
    [][/\ Cardinality(SbpWaiting(queue')) <= 1
       /\ (SbpSends /\ sbp.pc \in {"rem", "add"})
            => /\ Head(queue).owner = "sbp"
               /\ SbpWaiting(queue') = {Len(queue')}
               /\ SubSeq(queue', 1, Len(queue') - 1) = Tail(queue)
       /\ (SbpSends /\ sbp'.pc = "add" /\ sbp.pc # "add")
            => IF sbp.pc = "rem"
               THEN Head(queue).cmd = "del" /\ sbp.i = Len(sbp.remBPs)
               ELSE sbp'.remBPs = <<>>
       /\ SbpResponds
            => /\ SbpWaiting(queue') = {}
               /\ sbp.pc = "rem"
                    => Head(queue).cmd = "del" /\ sbp.i = Len(sbp.remBPs)
               /\ sbp.pc = "add"
                    => Head(queue).cmd = "add" /\ sbp.i = Len(sbp.addBPs)
               /\ bps' = addBreakpoints(
                             removeBreakpoints(bps, sbp'.remBPs).bps,
                             sbp'.successBPs).bps]_vars

\* A request that deleted one breakpoint and added another has been answered.
C29_Witness ==
    /\ sbp.pc = "done"
    /\ Len(sbp.remBPs) = 1
    /\ Len(sbp.successBPs) = 1
    /\ bpResp.kind = "ok"
    /\ queue = <<>>

\* Two requests for different files were in flight together, and both have
\* been answered.
BothCompleted ==
    /\ sbp.pc = "done" /\ parked.r.pc = "done"
    /\ sbp.filePath # parked.r.filePath
    /\ bpResp.kind = "ok" /\ parked.resp.kind = "ok"
    /\ queue = <<>>

\* The target holds a breakpoint for every line of the response.
AllSet(filePath, resp) ==
    \A k \in 1..Len(resp.lines) :
        \E i \in 1..Len(target) :
            target[i].origin = [filePath |-> filePath, line |-> resp.lines[k]]

\* C30: once two overlapping setBreakpoints requests for different files
\* have both been answered, the map and the target's table have the same
\* length and hold the same breakpoint at every position, and the target
\* still holds every breakpoint either response reported: none was deleted
\* by a delete command of the request for the other file.
C30_OverlapKeepsMirror ==
    BothCompleted
        => /\ Len(bps) = Len(target)
           /\ \A i \in 1..Len(bps) :
                /\ bps[i] # Null
                /\ i <= Len(target) => target[i].origin = OriginOf(bps[i])
           /\ AllSet(sbp.filePath, bpResp)
           /\ AllSet(parked.r.filePath, parked.resp)

\* The indices of the delete commands of the attach-time clearing that wait
\* in the queue, in the order they were sent.
InitIdx(q) ==
    LET dels == SelectSeq(q, LAMBDA c : c.cmd = "del" /\ c.owner = "init")
    IN [i \in 1..Len(dels) |-> dels[i].idx]

\* C31: removeAllTargetBreakpoints sends one delete command per breakpoint
\* of the list reply, with indices n-1 down to 0 in that order: while the
\* clearing runs, the commands still waiting are left-1 .. 0 against a table
\* of left entries, so that no command is rejected, and the table holds none
\* of the listed breakpoints once all are acknowledged.
C31_ClearingDeletesAll ==
    /\ init.pc # "rejected"
    /\ init.pc = "dels"
         => /\ init.left >= 1
            /\ InitIdx(queue) = [i \in 1..init.left |-> init.left - i]
            /\ Len(target) = init.left
            /\ DelAccepted(target, InitIdx(queue)[1])
    /\ init.pc = "done"
         => /\ InitIdx(queue) = <<>>
            /\ \A j \in 1..Len(target) : target[j].origin # Stale

\* The list reply reported two breakpoints: the delete commands for index 1
\* and index 0 wait in that order.
C31_Witness ==
    /\ init.pc = "dels"
    /\ init.left = 2
    /\ InitIdx(queue) = <<1, 0>>
    /\ Len(target) = 2

\* C32: after a successful attach the initial pause or resume request is
\* eventually issued and the session starts awaiting the initial status,
\* also when the target rejects a command of the clearing.
C32_InitialRequestIssued ==
    (phase = "attached" /\ init.pc = "list") ~> awaitingInitialStatus

\* C33: when a variables request for an Object property set overlaps
\* another for the same handle, both responses, once sent, hold the same
\* list of variables: the complete one.
C33_OverlapSameList ==
    (varResp2.ref # 0 /\ varResp.found /\ varResp.ref = varResp2.ref)
        => varResp2.variables = varResp.variables

\* C34: within one pause cycle, once every evaluation has been answered,
\* the variables that refer to the same heap object show the same display
\* string: a variable that reuses a cached property set shows what the
\* variable that registered the object shows, the constructor name put in
\* the place of "[object Object]" included.
C34_SameObjectSameValue ==
    disp.pc = "idle"
        => \A i, j \in 1..Len(disp.shown) :
              disp.shown[i].ptr = disp.shown[j].ptr
                  => disp.shown[i].value = disp.shown[j].value

\* C35: an evaluate request for a stack-frame handle of the current pause
\* whose expression the target evaluates successfully is answered with the
\* result string, with or without a scopes request for the frame before it.
C35_EvaluateGivesResult ==
    (ev.pc = "idle" /\ ev.expr = "x" /\ ev.reply = "success")
        => (ev.kind = "result" /\ ev.result = "value")

\* C37: an evaluate request gets exactly one response, whatever its
\* outcome: never more than one, and one once the request is over.
C37_EvaluateOneResponse ==
    /\ ev.responses <= 1
    /\ (ev.pc = "idle" /\ ev.expr # "") => ev.responses = 1

\* C36: when the source-map service has no mapping for a position (its
\* answer is null or has no line), generated2Source and source2Generated
\* throw nothing and return the position in the generated file: its path,
\* its name and the line they were given.
C36_NoMappingFallsBack ==
    (posOp.op # "none" /\ posOp.src.srcMap
        /\ (posOp.pos.null \/ posOp.pos.line = NoLine))
        => posOp.out = Unmapped(posOp.src, posOp.line)

\* C38: the BreakPointMap never holds two entries with the same file path
\* and line, whatever setBreakpoints requests have been served: requests
\* that list a line twice and requests that overlap included.
C38_NoDuplicateEntries ==
    \A i, j \in 1..Len(bps) :
        (i < j /\ bps[i] # Null /\ bps[j] # Null)
            => OriginOf(bps[i]) # OriginOf(bps[j])

\* C39: a delete command of the attach-time clearing removes a stale
\* breakpoint, never one a setBreakpoints request has set in the meantime;
\* and once the clearing and the requests made during it are over, the
\* target's table holds the breakpoints of the map, each at the index the
\* map gives it.
C39_ClearingSparesNewBreakpoints ==
    [][/\ (queue # <<>> /\ Head(queue).cmd = "del"
              /\ Head(queue).owner = "init" /\ target' # target)
          => target[Head(queue).idx + 1].origin = Stale
       /\ Quiescent'
          => /\ Len(bps') = Len(target')
             /\ \A i \in 1..Len(bps') :
                   /\ bps'[i] # Null
                   /\ bps'[i].dukIdx = i - 1
                   /\ i <= Len(target')
                        => target'[i].origin = OriginOf(bps'[i])]_vars

\* A request made during the clearing has been answered and its
\* breakpoint is in the target's table, behind a stale one the clearing
\* has yet to delete.
C39_Witness ==
    /\ init.pc = "dels"
    /\ sbp.pc = "done"
    /\ bps # <<>>
    /\ \E i, j \in 1..Len(target) :
          /\ i < j
          /\ target[i].origin = Stale
          /\ target[j].origin = OriginOf(bps[1])

====
